---- MODULE Spec2Model ----
(***************************************************************************)
(* Model of the academic-records GraphQL backend: the relational store     *)
(* (users, institutes, students, courses, results) with the constraints    *)
(* the Sequelize models declare, and the resolvers as handlers that run    *)
(* concurrently and interleave at every await.                             *)
(***************************************************************************)
EXTENDS Integers, FiniteSets, Sequences, TLC

\* ------------------------------------------------------------------ bounds
\* Number of requests the host runtime serves at the same time.
NumSlots == 2
\* Rows a table holds at the same time, when every mutation is running.
MaxUsers == 1
MaxInstitutes == 2
MaxStudents == 2
MaxCourses == 1
MaxResults == 1
\* Courses, when only the course catalogue and its results are exercised.
CatalogCourses == 2
\* Users, when only authentication is exercised.
AuthUsers == 2
\* Institutes, students and results, when only enrolment is exercised.
EnrolInstitutes == 1
EnrolStudents == 1
EnrolResults == 2

\* Institutes in the store the analytics queries read: more than the 10
\* that resultsPerInstitute selects.
AnalyticsInstitutes == 11

\* Rows of the table in focus where records are read, updated and deleted.
CrudRows == 2
ListRows == 2
RankRows == 2
\* The seeder's totals and batch sizes, scaled down, and the most CPU cores.
instituteCount == 3
userCount == 2
studentCount == 2
courseCount == 2
resultCount == 3
userBatchSize == 1
studentBatchSize == 1
BATCH_SIZE == 1
MaxCpus == 4

\* Rows per table where every query and mutation runs side by side.
GateRows == 1

\* Rows in a page handed to paginate, and the largest total count.
MaxItems == 2
MaxTotal == 3

\* ------------------------------------------------------------ input values
Slots == 1..NumSlots

Emails == {"a@x.io", "b@x.io"}
\* A string the isEmail validator rejects.
BadEmail == "not-an-email"
Passwords == {"pw1", "pw2"}
Names == {"Ann"}
\* A string of more than 255 characters, which a STRING(255) column refuses.
LongName == "a-name-of-256-characters"
Locations == {"Dhaka"}
Titles == {"Algebra"}
\* "" is a String! the schema accepts; it is falsy in a JavaScript condition.
Codes == {"", "CS101"}
Credits == {3}
Scores == {90}
Grades == {"A"}
Years == {2024}

NoRow == [id |-> 0]
NoErr == [message |-> "", code |-> ""]

\* The five tables, the handlers in flight, and the capacity of each table
\* (fixed by the specification; it never changes).
VARIABLES users, institutes, students, courses, results, req, cap

store == <<users, institutes, students, courses, results>>
vars == <<users, institutes, students, courses, results, req, cap>>

\* ----------------------------------------------------------------- errors
GraphQLError(message, code) == [message |-> message, code |-> code]

\* An error thrown by the ORM or the database, which no resolver catches.
StorageError(name) == [message |-> name, code |-> "INTERNAL_SERVER_ERROR"]

\* ------------------------------------------------------- context and gate
NoUser == [id |-> 0, email |-> "", role |-> ""]
Principals == { [id |-> 1, email |-> "a@x.io", role |-> "student"] }
Contexts == { NoUser } \cup Principals

\* A gate that lets every context through.
requireAuthFails_open(ctx) == FALSE

requireAuthFails(ctx) == ctx = NoUser

AuthRequired == GraphQLError("Authentication required", "UNAUTHENTICATED")

\* A principal whose role is admin (the role column admits it; signUp never
\* assigns it).
Admins == { [id |-> 2, email |-> "b@x.io", role |-> "admin"] }

\* requireAuth(context): the error it throws, NoErr when it returns.
requireAuth(ctx) == IF requireAuthFails(ctx) THEN AuthRequired ELSE NoErr

AdminRequired == GraphQLError("Admin access required", "FORBIDDEN")

\* A requireAdmin that looks at the role before the principal.
requireAdmin_roleFirst(ctx) ==
  IF ctx.role # "admin" THEN AdminRequired ELSE requireAuth(ctx)

\* requireAdmin(context): requireAuth, then the role.
requireAdmin(ctx) ==
  IF requireAuth(ctx) # NoErr
  THEN requireAuth(ctx)
  ELSE IF ctx.role # "admin" THEN AdminRequired ELSE NoErr

\* ------------------------------------------------- tokens and the context
\* A token as jwt.verify sees it: the payload it carries, the key that signed
\* it, and whether its expiry has passed.
jwtToken(payload, key, expired) ==
  [payload |-> payload, key |-> key, expired |-> expired]

\* The empty string, which is what is left of a header that is only "Bearer ".
EmptyToken == jwtToken(NoUser, "", FALSE)

\* jwtConfig.secret
Secret == "secret"

Tokens ==
  { jwtToken(p, k, e) :
      p \in Principals \cup Admins, k \in {Secret, "forged"}, e \in BOOLEAN }
  \cup { jwtToken(NoUser, "garbage", FALSE) }

\* req.headers.authorization: undefined, or a scheme prefix and what follows.
NoHeader == [present |-> FALSE, scheme |-> "", rest |-> EmptyToken]

Headers ==
  { NoHeader }
  \cup { [present |-> TRUE, scheme |-> sch, rest |-> t] :
           sch \in {"Bearer ", ""}, t \in Tokens \cup {EmptyToken} }

\* jwt.verify(token, secret) returns the payload or throws.
jwtVerifies(token) == token.key = Secret /\ ~token.expired

\* verifyToken(token): the error it throws, NoErr when it returns the payload.
verifyToken(token) ==
  IF jwtVerifies(token)
  THEN NoErr
  ELSE GraphQLError("Invalid or expired token", "UNAUTHENTICATED")

\* A context function that lets the verification error through.
context_rethrow(header) ==
  IF ~header.present \/ header.rest = EmptyToken
  THEN [err |-> NoErr, ctx |-> NoUser]
  ELSE IF verifyToken(header.rest) # NoErr
  THEN [err |-> verifyToken(header.rest), ctx |-> NoUser]
  ELSE [err |-> NoErr, ctx |-> header.rest.payload]

\* context({ req }): authorization?.replace("Bearer ", ""), then verifyToken
\* inside try/catch. The error is what the request is rejected with.
context(header) ==
  IF ~header.present \/ header.rest = EmptyToken
  THEN [err |-> NoErr, ctx |-> NoUser]
  ELSE IF verifyToken(header.rest) # NoErr
  THEN [err |-> NoErr, ctx |-> NoUser]
  ELSE [err |-> NoErr, ctx |-> header.rest.payload]

\* ------------------------------------------------------------ ORM lookups
Ids(table) == { row.id : row \in table }

Exists(table, id) == id \in Ids(table)

findByPk(table, id) ==
  IF Exists(table, id) THEN CHOOSE row \in table : row.id = id ELSE NoRow

findUserByEmail(email) ==
  IF \E u \in users : u.email = email
  THEN CHOOSE u \in users : u.email = email
  ELSE NoRow

findCourseByCode(code) ==
  IF \E c \in courses : c.code = code
  THEN CHOOSE c \in courses : c.code = code
  ELSE NoRow

\* User.student: Student.findOne({ where: { userId } }) returns one of these
\* rows, or null when there is none.
StudentsOfUser(userId) == { s \in students : s.userId = userId }

\* An optional input field is supplied when the input object has the key.
Has(input, f) == f \in DOMAIN input

\* The inputs that supply any subset of the fields of a full input.
Partial(full) ==
  UNION { { [f \in S |-> rec[f]] : S \in SUBSET DOMAIN rec } : rec \in full }

\* JavaScript truthiness of an optional string field.
Truthy(input, f) == Has(input, f) /\ input[f] # ""

\* Model.update(values): the keys supplied, and whether any differs from the
\* instance read earlier (save() issues no query when nothing changed).
Changed(snap, input) == { f \in DOMAIN input : input[f] # snap[f] }

\* UPDATE ... SET <supplied keys> on one row.
Assign(row, input) ==
  [f \in DOMAIN row |-> IF f \in DOMAIN input THEN input[f] ELSE row[f]]

\* -------------------------------------------------- password hash, token
\* bcrypt reads the first 72 bytes of a password and nothing after them: the
\* two long passwords of the model agree on these bytes and differ afterwards.
LongPasswords == {"72-bytes-and-x", "72-bytes-and-y"}

First72Bytes(password) ==
  IF password \in LongPasswords THEN "72-bytes-and-" ELSE password

bcryptHash(password) == <<"bcrypt", First72Bytes(password)>>

bcryptCompare(password, hashed) == hashed = bcryptHash(password)

jwtSign(user) == [id |-> user.id, email |-> user.email, role |-> user.role]

\* ------------------------------------------------------- model validators
isEmail(e) == e # BadEmail

FitsString255(s) == s # LongName

ValidCredits(n) == n >= 1 /\ n <= 6

GradeSet == {"A+", "A", "A-", "B+", "B", "B-", "C+", "C", "C-", "D+", "D", "F"}

ValidResult(x) ==
  /\ x.score >= 0 /\ x.score <= 100
  /\ x.grade \in GradeSet
  /\ x.year >= 2000 /\ x.year <= 2100

\* -------------------------------------------------------------- pagination
DefaultLimit == 10
MaxLimit == 100

Min(a, b) == IF a < b THEN a ELSE b

\* args.f || d for an optional Int: d when the field is absent or 0.
OrElse(args, f, d) == IF Has(args, f) /\ args[f] # 0 THEN args[f] ELSE d

\* getPaginationParams(args)
getPaginationParams(args) ==
  [limit |-> Min(OrElse(args, "limit", DefaultLimit), MaxLimit),
   offset |-> OrElse(args, "offset", 0)]

\* A paginate whose hasMore also counts the row at the boundary.
paginate_inclusive(items, totalCount, limit, offset) ==
  [items |-> items, totalCount |-> totalCount,
   hasMore |-> offset + Len(items) <= totalCount,
   limit |-> limit, offset |-> offset]

\* paginate(items, totalCount, limit, offset); every caller passes all four.
paginate(items, totalCount, limit, offset) ==
  [items |-> items, totalCount |-> totalCount,
   hasMore |-> offset + Len(items) < totalCount,
   limit |-> limit, offset |-> offset]

\* ------------------------------------------------------- ORDER BY and LIMIT
\* The strings used as sort keys, in the order of the database collation.
Collation ==
  <<"", "Ann", "Ben", "CS101", "CS102", "CS103", "Cy", "I01", "I02", "I03", "I04", "I05", "I06", "I07", "I08",
    "I09", "I10", "I11", "I12", "a-name-of-256-characters">>

Collate(str) == CHOOSE i \in 1..Len(Collation) : Collation[i] = str

\* ORDER BY key ASC: every sequence of the rows of S in which keys never
\* decrease; rows with equal keys come in any order.
RECURSIVE Ordered(_, _)
Ordered(S, key) ==
  IF S = {}
  THEN { <<>> }
  ELSE UNION { { <<x>> \o rest : rest \in Ordered(S \ {x}, key) } :
               x \in { y \in S : \A z \in S : key[y] <= key[z] } }

\* LIMIT limit OFFSET offset
Window(rows, limit, offset) ==
  SubSeq(rows, offset + 1, Min(offset + limit, Len(rows)))

\* value ILIKE %search% on the strings of the model.
ILike(value, search) == <<value, search>> \in { <<"Ann", "an">> }


\* The users table without the unique index on email.
UserEmailFree_noIndex(email) == TRUE

\* users.email is unique.
UserEmailFree(email) == \A u \in users : u.email # email

\* The courses table without the unique index on code.
CourseCodeFree_noIndex(code, selfId) == TRUE

\* courses.code is unique; a row does not conflict with itself.
CourseCodeFree(code, selfId) ==
  \A c \in courses : c.code = code => c.id = selfId

\* The students table without its foreign-key constraints.
StudentFkOk_noConstraint(instituteId, userId) == TRUE

\* students.instituteId and students.userId are foreign keys.
StudentFkOk(instituteId, userId) ==
  Exists(institutes, instituteId) /\ Exists(users, userId)

\* results.studentId and results.courseId are foreign keys.
ResultFkOk(studentId, courseId) ==
  Exists(students, studentId) /\ Exists(courses, courseId)

\* The students.instituteId key without ON DELETE CASCADE.
StudentsAfterInstituteDelete_noCascade(id) == students

\* ON DELETE CASCADE: the students of a deleted institute go with it ...
StudentsAfterInstituteDelete(id) ==
  { s \in students : s.instituteId # id }

\* ... and the results of deleted students go with them.
ResultsAfterStudentsDelete(remaining) ==
  { x \in results : x.studentId \in Ids(remaining) }

\* The results.courseId key without ON DELETE CASCADE.
ResultsAfterCourseDelete_noCascade(id) == results

\* ON DELETE CASCADE: the results of a deleted course go with it.
ResultsAfterCourseDelete(id) ==
  { x \in results : x.courseId # id }

\* ---------------------------------------------------------- request slots
Idle ==
  [op |-> "", pc |-> "idle", id |-> 0, input |-> NoRow, snap |-> NoRow,
   err |-> NoErr, val |-> NoRow]

Free(r) == req[r].pc \in {"idle", "done", "failed"}

\* Handlers in flight that will still insert a row (ids are capped in the model).
InFlight(ops) == Cardinality({ r \in Slots : req[r].op \in ops /\ ~Free(r) })

\* Primary keys are UUIDv4 defaults: a new row's id is one no row has and no
\* handler in flight holds (ids are opaque, so which one is immaterial).
Running == { r \in Slots : ~Free(r) }

HeldInstitutes ==
  { req[r].id : r \in { q \in Running : req[q].op \in {"updateInstitute", "deleteInstitute"} } }
  \cup { req[r].input.instituteId :
           r \in { q \in Running : Has(req[q].input, "instituteId") } }

HeldStudents ==
  { req[r].id : r \in { q \in Running : req[q].op \in {"updateStudent", "deleteStudent"} } }
  \cup { req[r].input.studentId :
           r \in { q \in Running : Has(req[q].input, "studentId") } }

HeldCourses ==
  { req[r].id : r \in { q \in Running : req[q].op \in {"updateCourse", "deleteCourse"} } }
  \cup { req[r].input.courseId :
           r \in { q \in Running : Has(req[q].input, "courseId") } }

HeldResults ==
  { req[r].id : r \in { q \in Running : req[q].op \in {"updateResult", "deleteResult"} } }

CanInsert(table, ids, held) == ids \ (Ids(table) \cup held) # {}

NewId(table, ids, held) ==
  CHOOSE i \in ids \ (Ids(table) \cup held) :
    \A j \in ids \ (Ids(table) \cup held) : i <= j

\* The handler of slot r awaits at pc.
Await(r, op, pc, id, input, snap) ==
  /\ UNCHANGED cap
  /\ req' = [req EXCEPT ![r] =
            [Idle EXCEPT !.op = op, !.pc = pc, !.id = id, !.input = input,
                         !.snap = snap]]

\* The handler of slot r throws e; the slot keeps the response.
Throw(r, op, e) ==
  /\ UNCHANGED cap
  /\ req' = [req EXCEPT ![r] = [Idle EXCEPT !.op = op, !.pc = "failed", !.err = e]]

\* What a slot keeps of a returned row or boolean: that the handler returned.
Ok == [id |-> 0, ok |-> TRUE]

\* The instance a handler read earlier, as far as update(input) reads it: its
\* id and its values for the supplied keys.
Instance(row, input) ==
  [f \in {"id"} \cup DOMAIN input |-> row[f]]

\* The handler of slot r returns v; the slot keeps the response.
Return(r, op, v) ==
  /\ UNCHANGED cap
  /\ req' = [req EXCEPT ![r] = [Idle EXCEPT !.op = op, !.pc = "done", !.val = v]]

Capacity(u, i, s, c, x) ==
  [users |-> u, institutes |-> i, students |-> s, courses |-> c, results |-> x]

InitWith(capacity) ==
  /\ cap = capacity
  /\ users = {}
  /\ institutes = {}
  /\ students = {}
  /\ courses = {}
  /\ results = {}
  /\ req = [r \in Slots |-> Idle]

Init ==
  InitWith(Capacity(MaxUsers, MaxInstitutes, MaxStudents, MaxCourses, MaxResults))

\* A handler past its first await throws or returns.
ThrowOn(r, e) == Throw(r, req[r].op, e)

ReturnOn(r, v) == Return(r, req[r].op, v)

\* ------------------------------------------------------------- institutes
createInstitute(r, ctx, input) ==
  /\ Free(r)
  /\ IF requireAuthFails(ctx)
     THEN Throw(r, "createInstitute", AuthRequired) /\ UNCHANGED store
     ELSE /\ CanInsert(institutes, 1..cap.institutes, HeldInstitutes)
          /\ LET row == [id |-> NewId(institutes, 1..cap.institutes, HeldInstitutes),
                         name |-> input.name, location |-> input.location]
             IN /\ institutes' = institutes \cup {row}
                /\ Return(r, "createInstitute", Ok)
          /\ UNCHANGED <<users, students, courses, results>>

\* A deleteInstitute gated by requireAdmin.
deleteInstitute_adminOnly(r, ctx, id) ==
  /\ Free(r)
  /\ UNCHANGED store
  /\ IF requireAdmin(ctx) # NoErr
     THEN Throw(r, "deleteInstitute", requireAdmin(ctx))
     ELSE IF ~Exists(institutes, id)
     THEN Throw(r, "deleteInstitute", GraphQLError("Institute not found", "NOT_FOUND"))
     ELSE Await(r, "deleteInstitute", "destroy", id, NoRow, NoRow)

deleteInstitute(r, ctx, id) ==
  /\ Free(r)
  /\ UNCHANGED store
  /\ IF requireAuthFails(ctx)
     THEN Throw(r, "deleteInstitute", AuthRequired)
     ELSE IF ~Exists(institutes, id)
     THEN Throw(r, "deleteInstitute", GraphQLError("Institute not found", "NOT_FOUND"))
     ELSE Await(r, "deleteInstitute", "destroy", id, NoRow, NoRow)

deleteInstitute_destroy(r) ==
  /\ req[r].op = "deleteInstitute" /\ req[r].pc = "destroy"
  /\ institutes' = { i \in institutes : i.id # req[r].id }
  /\ students' = StudentsAfterInstituteDelete(req[r].id)
  /\ results' = ResultsAfterStudentsDelete(StudentsAfterInstituteDelete(req[r].id))
  /\ UNCHANGED <<users, courses>>
  /\ ReturnOn(r, Ok)

updateInstitute(r, ctx, id, input) ==
  /\ Free(r)
  /\ UNCHANGED store
  /\ IF requireAuthFails(ctx)
     THEN Throw(r, "updateInstitute", AuthRequired)
     ELSE IF ~Exists(institutes, id)
     THEN Throw(r, "updateInstitute", GraphQLError("Institute not found", "NOT_FOUND"))
     ELSE Await(r, "updateInstitute", "update", id, input,
                Instance(findByPk(institutes, id), input))

\* An UPDATE without its WHERE id: the supplied keys are set on every row.
updateInstitute_update_everyRow(r) ==
  /\ req[r].op = "updateInstitute" /\ req[r].pc = "update"
  /\ institutes' = { Assign(i, req[r].input) : i \in institutes }
  /\ UNCHANGED <<users, students, courses, results>>
  /\ ReturnOn(r, Ok)

\* institute.update(input): UPDATE institutes SET <supplied keys> WHERE id.
updateInstitute_update(r) ==
  /\ req[r].op = "updateInstitute" /\ req[r].pc = "update"
  /\ LET input == req[r].input
         snap == req[r].snap
     IN IF Changed(snap, input) = {} \/ ~Exists(institutes, snap.id)
        THEN ReturnOn(r, Ok) /\ UNCHANGED store
        ELSE IF \E f \in DOMAIN input : ~FitsString255(input[f])
        THEN ThrowOn(r, StorageError("SequelizeDatabaseError"))
             /\ UNCHANGED store
        ELSE /\ institutes' =
                  { IF i.id = snap.id THEN Assign(i, input) ELSE i : i \in institutes }
             /\ UNCHANGED <<users, students, courses, results>>
             /\ ReturnOn(r, Ok)

\* --------------------------------------------------------------- students
createStudent(r, ctx, input) ==
  /\ Free(r)
  /\ UNCHANGED store
  /\ IF requireAuthFails(ctx)
     THEN Throw(r, "createStudent", AuthRequired)
     ELSE IF ~Exists(institutes, input.instituteId)
     THEN Throw(r, "createStudent", GraphQLError("Institute not found", "BAD_USER_INPUT"))
     ELSE /\ Cardinality(students) + InFlight({"createStudent", "signUp"}) < cap.students
          /\ Await(r, "createStudent", "findUser", 0, input, NoRow)

\* A createStudent that leaves the user to the foreign key.
createStudent_findUser_unchecked(r) ==
  /\ req[r].op = "createStudent" /\ req[r].pc = "findUser"
  /\ UNCHANGED store
  /\ Await(r, "createStudent", "create", 0, req[r].input, NoRow)

createStudent_findUser(r) ==
  /\ req[r].op = "createStudent" /\ req[r].pc = "findUser"
  /\ UNCHANGED store
  /\ IF ~Exists(users, req[r].input.userId)
     THEN ThrowOn(r, GraphQLError("User not found", "BAD_USER_INPUT"))
     ELSE Await(r, "createStudent", "create", 0, req[r].input, NoRow)

\* Student.create(values): validators, then INSERT under the column types and
\* the foreign keys.
StudentCreate(r, values, result) ==
  IF ~isEmail(values.email)
  THEN ThrowOn(r, StorageError("SequelizeValidationError")) /\ UNCHANGED store
  ELSE IF ~FitsString255(values.name)
  THEN ThrowOn(r, StorageError("SequelizeDatabaseError")) /\ UNCHANGED store
  ELSE IF ~StudentFkOk(values.instituteId, values.userId)
  THEN ThrowOn(r, StorageError("SequelizeForeignKeyConstraintError"))
       /\ UNCHANGED store
  ELSE LET row == [id |-> NewId(students, 1..cap.students, HeldStudents), name |-> values.name,
                   email |-> values.email, instituteId |-> values.instituteId,
                   userId |-> values.userId]
       IN /\ CanInsert(students, 1..cap.students, HeldStudents)
          /\ students' = students \cup {row}
          /\ ReturnOn(r, result)
          /\ UNCHANGED <<users, institutes, courses, results>>

createStudent_create(r) ==
  /\ req[r].op = "createStudent" /\ req[r].pc = "create"
  /\ StudentCreate(r, req[r].input, Ok)

updateStudent(r, ctx, id, input) ==
  /\ Free(r)
  /\ UNCHANGED store
  /\ IF requireAuthFails(ctx)
     THEN Throw(r, "updateStudent", AuthRequired)
     ELSE IF ~Exists(students, id)
     THEN Throw(r, "updateStudent", GraphQLError("Student not found", "NOT_FOUND"))
     ELSE Await(r, "updateStudent", "update", id, input,
                Instance(findByPk(students, id), input))

\* student.update(input): validators on the supplied keys, then
\* UPDATE students SET <supplied keys> WHERE id, under the foreign keys.
updateStudent_update(r) ==
  /\ req[r].op = "updateStudent" /\ req[r].pc = "update"
  /\ LET input == req[r].input
         snap == req[r].snap
     IN IF Has(input, "email") /\ ~isEmail(input.email)
        THEN ThrowOn(r, StorageError("SequelizeValidationError"))
             /\ UNCHANGED store
        ELSE IF Changed(snap, input) = {} \/ ~Exists(students, snap.id)
        THEN ReturnOn(r, Ok) /\ UNCHANGED store
        ELSE IF Has(input, "instituteId") /\ ~Exists(institutes, input.instituteId)
        THEN ThrowOn(r, StorageError("SequelizeForeignKeyConstraintError"))
             /\ UNCHANGED store
        ELSE /\ students' = { IF s.id = snap.id THEN Assign(s, input) ELSE s : s \in students }
             /\ UNCHANGED <<users, institutes, courses, results>>
             /\ ReturnOn(r, Ok)

deleteStudent(r, ctx, id) ==
  /\ Free(r)
  /\ UNCHANGED store
  /\ IF requireAuthFails(ctx)
     THEN Throw(r, "deleteStudent", AuthRequired)
     ELSE IF ~Exists(students, id)
     THEN Throw(r, "deleteStudent", GraphQLError("Student not found", "NOT_FOUND"))
     ELSE Await(r, "deleteStudent", "destroy", id, NoRow, NoRow)

\* A destroy whose cascade runs from the student to its user as well.
deleteStudent_destroy_withUser(r) ==
  /\ req[r].op = "deleteStudent" /\ req[r].pc = "destroy"
  /\ LET gone == { s \in students : s.id = req[r].id }
         owners == { s.userId : s \in gone }
         remaining == { s \in students : s.userId \notin owners /\ s.id # req[r].id }
     IN /\ users' = { u \in users : u.id \notin owners }
        /\ students' = remaining
        /\ results' = ResultsAfterStudentsDelete(remaining)
  /\ UNCHANGED <<institutes, courses>>
  /\ ReturnOn(r, Ok)

deleteStudent_destroy(r) ==
  /\ req[r].op = "deleteStudent" /\ req[r].pc = "destroy"
  /\ students' = { s \in students : s.id # req[r].id }
  /\ results' = ResultsAfterStudentsDelete({ s \in students : s.id # req[r].id })
  /\ UNCHANGED <<users, institutes, courses>>
  /\ ReturnOn(r, Ok)

\* ------------------------------------------------------------------- auth
\* A sign-in that tells an unknown email from a wrong password.
signInNoUser_leaky == GraphQLError("User not found", "UNAUTHENTICATED")

\* The two errors signIn throws: no user with the email, wrong password.
signInNoUser == GraphQLError("Invalid credentials", "UNAUTHENTICATED")

signInBadPassword == GraphQLError("Invalid credentials", "UNAUTHENTICATED")

\* A signUp that leaves the duplicate email to the unique index.
signUp_unchecked(r, input) ==
  /\ Free(r)
  /\ UNCHANGED store
  /\ Cardinality(users) + InFlight({"signUp"}) < cap.users
  /\ Cardinality(students) + InFlight({"createStudent", "signUp"}) < cap.students
  /\ Await(r, "signUp", "findInstitute", 0, input, NoRow)

signUp(r, input) ==
  /\ Free(r)
  /\ UNCHANGED store
  /\ IF findUserByEmail(input.email) # NoRow
     THEN Throw(r, "signUp", GraphQLError("User with this email already exists", "BAD_USER_INPUT"))
     ELSE /\ Cardinality(users) + InFlight({"signUp"}) < cap.users
          /\ Cardinality(students) + InFlight({"createStudent", "signUp"}) < cap.students
          /\ Await(r, "signUp", "findInstitute", 0, input, NoRow)

signUp_findInstitute(r) ==
  /\ req[r].op = "signUp" /\ req[r].pc = "findInstitute"
  /\ UNCHANGED store
  /\ IF ~Exists(institutes, req[r].input.instituteId)
     THEN ThrowOn(r, GraphQLError("Institute not found", "BAD_USER_INPUT"))
     ELSE Await(r, "signUp", "createUser", 0, req[r].input, NoRow)

\* bcrypt.hash, then User.create: validators, then INSERT under the unique email.
signUp_createUser(r) ==
  /\ req[r].op = "signUp" /\ req[r].pc = "createUser"
  /\ LET input == req[r].input
         user == [id |-> NewId(users, 1..cap.users, {}), email |-> input.email,
                  password |-> bcryptHash(input.password), role |-> "student"]
     IN IF ~isEmail(input.email)
        THEN ThrowOn(r, StorageError("SequelizeValidationError"))
             /\ UNCHANGED store
        ELSE IF ~UserEmailFree(input.email)
        THEN ThrowOn(r, StorageError("SequelizeUniqueConstraintError"))
             /\ UNCHANGED store
        ELSE /\ CanInsert(users, 1..cap.users, {})
             /\ users' = users \cup {user}
             /\ UNCHANGED <<institutes, students, courses, results>>
             /\ Await(r, "signUp", "createStudent", 0, input, user)

AuthPayload(user) == [token |-> jwtSign(user), user |-> user]

\* Student.create for the new user, then jwt.sign and the payload.
signUp_createStudent(r) ==
  /\ req[r].op = "signUp" /\ req[r].pc = "createStudent"
  /\ LET input == req[r].input
         user == req[r].snap
     IN StudentCreate(r,
                      [name |-> input.name, email |-> input.email,
                       instituteId |-> input.instituteId, userId |-> user.id],
                      AuthPayload(user))

\* User.findOne by email, then bcrypt.compare: what signIn throws or returns.
signInOutcome(input) ==
  LET user == findUserByEmail(input.email)
  IN IF user = NoRow
     THEN [err |-> signInNoUser, val |-> NoRow]
     ELSE IF ~bcryptCompare(input.password, user.password)
     THEN [err |-> signInBadPassword, val |-> NoRow]
     ELSE [err |-> NoErr, val |-> AuthPayload(user)]

\* signIn writes nothing; the slot keeps the request with its response.
signIn(r, input) ==
  /\ Free(r)
  /\ UNCHANGED <<store, cap>>
  /\ req' = [req EXCEPT ![r] =
              [Idle EXCEPT !.op = "signIn",
                           !.pc = IF signInOutcome(input).err = NoErr
                                  THEN "done" ELSE "failed",
                           !.input = input,
                           !.err = signInOutcome(input).err,
                           !.val = signInOutcome(input).val]]

\* ---------------------------------------------------------------- courses
CodeTaken == GraphQLError("Course with this code already exists", "BAD_USER_INPUT")

createCourse(r, ctx, input) ==
  /\ Free(r)
  /\ UNCHANGED store
  /\ IF requireAuthFails(ctx)
     THEN Throw(r, "createCourse", AuthRequired)
     ELSE IF findCourseByCode(input.code) # NoRow
     THEN Throw(r, "createCourse", CodeTaken)
     ELSE /\ Cardinality(courses) + InFlight({"createCourse"}) < cap.courses
          /\ Await(r, "createCourse", "create", 0, input, NoRow)

\* Course.create(input): validators, then INSERT under the unique code.
createCourse_create(r) ==
  /\ req[r].op = "createCourse" /\ req[r].pc = "create"
  /\ LET input == req[r].input
         row == [id |-> NewId(courses, 1..cap.courses, HeldCourses), title |-> input.title,
                 code |-> input.code, credits |-> input.credits]
     IN IF ~ValidCredits(input.credits)
        THEN ThrowOn(r, StorageError("SequelizeValidationError"))
             /\ UNCHANGED store
        ELSE IF ~CourseCodeFree(input.code, 0)
        THEN ThrowOn(r, StorageError("SequelizeUniqueConstraintError"))
             /\ UNCHANGED store
        ELSE /\ CanInsert(courses, 1..cap.courses, HeldCourses)
             /\ courses' = courses \cup {row}
             /\ UNCHANGED <<users, institutes, students, results>>
             /\ ReturnOn(r, Ok)

\* if (input.code && input.code !== course.code)
NeedsCodeCheck(input, course) ==
  Truthy(input, "code") /\ input.code # course.code

updateCourse(r, ctx, id, input) ==
  /\ Free(r)
  /\ UNCHANGED store
  /\ IF requireAuthFails(ctx)
     THEN Throw(r, "updateCourse", AuthRequired)
     ELSE IF ~Exists(courses, id)
     THEN Throw(r, "updateCourse", GraphQLError("Course not found", "NOT_FOUND"))
     ELSE IF NeedsCodeCheck(input, findByPk(courses, id))
     THEN Await(r, "updateCourse", "findCode", id, input,
                Instance(findByPk(courses, id), input))
     ELSE Await(r, "updateCourse", "update", id, input,
                Instance(findByPk(courses, id), input))

updateCourse_findCode(r) ==
  /\ req[r].op = "updateCourse" /\ req[r].pc = "findCode"
  /\ UNCHANGED store
  /\ IF findCourseByCode(req[r].input.code) # NoRow
     THEN ThrowOn(r, CodeTaken)
     ELSE Await(r, "updateCourse", "update", req[r].id, req[r].input, req[r].snap)

\* course.update(input): validators on the supplied keys, then
\* UPDATE courses SET <supplied keys> WHERE id, under the unique code.
updateCourse_update(r) ==
  /\ req[r].op = "updateCourse" /\ req[r].pc = "update"
  /\ LET input == req[r].input
         snap == req[r].snap
     IN IF Has(input, "credits") /\ ~ValidCredits(input.credits)
        THEN ThrowOn(r, StorageError("SequelizeValidationError"))
             /\ UNCHANGED store
        ELSE IF Changed(snap, input) = {} \/ ~Exists(courses, snap.id)
        THEN ReturnOn(r, Ok) /\ UNCHANGED store
        ELSE IF Has(input, "code") /\ ~CourseCodeFree(input.code, snap.id)
        THEN ThrowOn(r, StorageError("SequelizeUniqueConstraintError"))
             /\ UNCHANGED store
        ELSE /\ courses' = { IF c.id = snap.id THEN Assign(c, input) ELSE c : c \in courses }
             /\ UNCHANGED <<users, institutes, students, results>>
             /\ ReturnOn(r, Ok)

deleteCourse(r, ctx, id) ==
  /\ Free(r)
  /\ UNCHANGED store
  /\ IF requireAuthFails(ctx)
     THEN Throw(r, "deleteCourse", AuthRequired)
     ELSE IF ~Exists(courses, id)
     THEN Throw(r, "deleteCourse", GraphQLError("Course not found", "NOT_FOUND"))
     ELSE Await(r, "deleteCourse", "destroy", id, NoRow, NoRow)

deleteCourse_destroy(r) ==
  /\ req[r].op = "deleteCourse" /\ req[r].pc = "destroy"
  /\ courses' = { c \in courses : c.id # req[r].id }
  /\ results' = ResultsAfterCourseDelete(req[r].id)
  /\ UNCHANGED <<users, institutes, students>>
  /\ ReturnOn(r, Ok)

\* ---------------------------------------------------------------- results
createResult(r, ctx, input) ==
  /\ Free(r)
  /\ UNCHANGED store
  /\ IF requireAuthFails(ctx)
     THEN Throw(r, "createResult", AuthRequired)
     ELSE IF ~Exists(students, input.studentId)
     THEN Throw(r, "createResult", GraphQLError("Student not found", "BAD_USER_INPUT"))
     ELSE /\ Cardinality(results) + InFlight({"createResult"}) < cap.results
          /\ Await(r, "createResult", "findCourse", 0, input, NoRow)

createResult_findCourse(r) ==
  /\ req[r].op = "createResult" /\ req[r].pc = "findCourse"
  /\ UNCHANGED store
  /\ IF ~Exists(courses, req[r].input.courseId)
     THEN ThrowOn(r, GraphQLError("Course not found", "BAD_USER_INPUT"))
     ELSE Await(r, "createResult", "create", 0, req[r].input, NoRow)

\* Result.create(input): validators, then INSERT under the foreign keys.
createResult_create(r) ==
  /\ req[r].op = "createResult" /\ req[r].pc = "create"
  /\ LET input == req[r].input
         row == [id |-> NewId(results, 1..cap.results, HeldResults),
                 studentId |-> input.studentId,
                 courseId |-> input.courseId, score |-> input.score,
                 grade |-> input.grade, year |-> input.year]
     IN IF ~ValidResult(input)
        THEN ThrowOn(r, StorageError("SequelizeValidationError"))
             /\ UNCHANGED store
        ELSE IF ~ResultFkOk(input.studentId, input.courseId)
        THEN ThrowOn(r, StorageError("SequelizeForeignKeyConstraintError"))
             /\ UNCHANGED store
        ELSE /\ CanInsert(results, 1..cap.results, HeldResults)
             /\ results' = results \cup {row}
             /\ UNCHANGED <<users, institutes, students, courses>>
             /\ ReturnOn(r, Ok)

\* Result.update(input): validators on the supplied keys.
\* An update that validates the score alone.
ValidResultPatch_scoreOnly(input) ==
  Has(input, "score") => (input.score >= 0 /\ input.score <= 100)

ValidResultPatch(input) ==
  /\ Has(input, "score") => (input.score >= 0 /\ input.score <= 100)
  /\ Has(input, "grade") => input.grade \in GradeSet
  /\ Has(input, "year") => (input.year >= 2000 /\ input.year <= 2100)

updateResult(r, ctx, id, input) ==
  /\ Free(r)
  /\ UNCHANGED store
  /\ IF requireAuthFails(ctx)
     THEN Throw(r, "updateResult", AuthRequired)
     ELSE IF ~Exists(results, id)
     THEN Throw(r, "updateResult", GraphQLError("Result not found", "NOT_FOUND"))
     ELSE Await(r, "updateResult", "update", id, input,
                Instance(findByPk(results, id), input))

updateResult_update(r) ==
  /\ req[r].op = "updateResult" /\ req[r].pc = "update"
  /\ LET input == req[r].input
         snap == req[r].snap
     IN IF ~ValidResultPatch(input)
        THEN ThrowOn(r, StorageError("SequelizeValidationError"))
             /\ UNCHANGED store
        ELSE IF Changed(snap, input) = {} \/ ~Exists(results, snap.id)
        THEN ReturnOn(r, Ok) /\ UNCHANGED store
        ELSE /\ results' = { IF x.id = snap.id THEN Assign(x, input) ELSE x : x \in results }
             /\ UNCHANGED <<users, institutes, students, courses>>
             /\ ReturnOn(r, Ok)

deleteResult(r, ctx, id) ==
  /\ Free(r)
  /\ UNCHANGED store
  /\ IF requireAuthFails(ctx)
     THEN Throw(r, "deleteResult", AuthRequired)
     ELSE IF ~Exists(results, id)
     THEN Throw(r, "deleteResult", GraphQLError("Result not found", "NOT_FOUND"))
     ELSE Await(r, "deleteResult", "destroy", id, NoRow, NoRow)

deleteResult_destroy(r) ==
  /\ req[r].op = "deleteResult" /\ req[r].pc = "destroy"
  /\ results' = { x \in results : x.id # req[r].id }
  /\ UNCHANGED <<users, institutes, students, courses>>
  /\ ReturnOn(r, Ok)

\* ---------------------------------------------------------------- queries
\* me: its own check of the principal, then the principal's User row or null.
me(r, ctx) ==
  /\ Free(r)
  /\ UNCHANGED store
  /\ IF ctx = NoUser
     THEN Throw(r, "me", GraphQLError("Not authenticated", "UNAUTHENTICATED"))
     ELSE Return(r, "me", findByPk(users, ctx.id))

\* institute / student / course / result (id): the row, or NOT_FOUND.
\* A lookup that answers null for an id no row has.
FindOne_nullable(r, ctx, op, table, id, what) ==
  /\ Free(r)
  /\ UNCHANGED store
  /\ IF requireAuthFails(ctx)
     THEN Throw(r, op, AuthRequired)
     ELSE Return(r, op, IF Exists(table, id) THEN findByPk(table, id) ELSE NoRow)

FindOne(r, ctx, op, table, id, what) ==
  /\ Free(r)
  /\ UNCHANGED store
  /\ IF requireAuthFails(ctx)
     THEN Throw(r, op, AuthRequired)
     ELSE IF ~Exists(table, id)
     THEN Throw(r, op, GraphQLError(what, "NOT_FOUND"))
     ELSE Return(r, op, findByPk(table, id))

institute(r, ctx, id) ==
  FindOne(r, ctx, "institute", institutes, id, "Institute not found")

student(r, ctx, id) ==
  FindOne(r, ctx, "student", students, id, "Student not found")

course(r, ctx, id) ==
  FindOne(r, ctx, "course", courses, id, "Course not found")

result(r, ctx, id) ==
  FindOne(r, ctx, "result", results, id, "Result not found")

\* findAndCountAll({ where, limit, offset, order }) and paginate: the database
\* refuses a negative LIMIT or OFFSET.
FindPage(r, op, matching, key, args) ==
  LET p == getPaginationParams(args)
  IN IF p.limit < 0 \/ p.offset < 0
     THEN Throw(r, op, StorageError("SequelizeDatabaseError"))
     ELSE \E rows \in Ordered(matching, key) :
            Return(r, op, paginate(Window(rows, p.limit, p.offset),
                                   Cardinality(matching), p.limit, p.offset))

\* institutes(limit, offset, search): no requireAuth.
institutesQuery(r, args) ==
  /\ Free(r)
  /\ UNCHANGED store
  /\ FindPage(r, "institutes",
              { i \in institutes :
                  Truthy(args, "search") =>
                    ILike(i.name, args.search) \/ ILike(i.location, args.search) },
              [i \in institutes |-> Collate(i.name)], args)

studentsQuery(r, ctx, args) ==
  /\ Free(r)
  /\ UNCHANGED store
  /\ IF requireAuthFails(ctx)
     THEN Throw(r, "students", AuthRequired)
     ELSE FindPage(r, "students",
                   { s \in students :
                       Truthy(args, "search") =>
                         ILike(s.name, args.search) \/ ILike(s.email, args.search) },
                   [s \in students |-> Collate(s.name)], args)

coursesQuery(r, ctx, args) ==
  /\ Free(r)
  /\ UNCHANGED store
  /\ IF requireAuthFails(ctx)
     THEN Throw(r, "courses", AuthRequired)
     ELSE FindPage(r, "courses",
                   { c \in courses :
                       Truthy(args, "search") =>
                         ILike(c.title, args.search) \/ ILike(c.code, args.search) },
                   [c \in courses |-> Collate(c.code)], args)

\* results(limit, offset, search, year): year DESC, score DESC; search unused.
resultsQuery(r, ctx, args) ==
  /\ Free(r)
  /\ UNCHANGED store
  /\ IF requireAuthFails(ctx)
     THEN Throw(r, "results", AuthRequired)
     ELSE FindPage(r, "results",
                   { x \in results :
                       (Has(args, "year") /\ args.year # 0) => x.year = args.year },
                   [x \in results |-> 0 - (x.year * 1000 + x.score)], args)

\* -------------------------------------------------------------- analytics
\* allData: every institute by name, each with its students, their results and
\* each result's course.
WithCourse(x) ==
  [id |-> x.id, score |-> x.score, grade |-> x.grade, year |-> x.year,
   course |-> findByPk(courses, x.courseId)]

WithResults(s) ==
  [id |-> s.id, name |-> s.name, email |-> s.email,
   results |-> { WithCourse(x) : x \in { y \in results : y.studentId = s.id } }]

WithStudents(i) ==
  [id |-> i.id, name |-> i.name, location |-> i.location,
   students |-> { WithResults(s) : s \in { t \in students : t.instituteId = i.id } }]

allData(r, ctx) ==
  /\ Free(r)
  /\ UNCHANGED store
  /\ IF requireAuthFails(ctx)
     THEN Throw(r, "allData", AuthRequired)
     ELSE \E rows \in Ordered(institutes, [i \in institutes |-> Collate(i.name)]) :
            Return(r, "allData", [n \in DOMAIN rows |-> WithStudents(rows[n])])

RollupLimit == 10

\* A selection without the LIMIT.
Selections_unlimited(args) ==
  IF Has(args, "instituteId")
  THEN { { i \in institutes : i.id = args.instituteId } }
  ELSE { institutes }

\* The institutes findAll selects for resultsPerInstitute: the one with the
\* given id, or, with LIMIT 10 and no ORDER BY, any 10 of them (all of them
\* when there are no more than 10).
Selections(args) ==
  IF Has(args, "instituteId")
  THEN { { i \in institutes : i.id = args.instituteId } }
  ELSE { S \in SUBSET institutes :
           Cardinality(S) = Min(RollupLimit, Cardinality(institutes)) }

\* totalScore += parseFloat(result.score) over the rows of S.
RECURSIVE Sum(_)
Sum(S) ==
  IF S = {} THEN 0 ELSE LET x == CHOOSE y \in S : TRUE IN x.score + Sum(S \ {x})

\* total / count as the pair of its numerator and denominator.
Ratio(total, count) == <<total, count>>

\* allResults of the map over the selected institutes: the results of the
\* institute's students, each with its student and the institute.
Flattened(i) ==
  LET data == WithStudents(i)
  IN UNION { { [id |-> x.id, score |-> x.score, grade |-> x.grade,
                year |-> x.year, course |-> x.course,
                student |-> [id |-> s.id, name |-> s.name, email |-> s.email,
                             institute |-> [id |-> data.id, name |-> data.name,
                                            location |-> data.location]]] :
               x \in s.results } : s \in data.students }

\* A rollup whose mean is taken over the students instead of the results.
Rollup_perStudent(i) ==
  [institute |-> [id |-> i.id, name |-> i.name, location |-> i.location],
   results |-> Flattened(i),
   averageScore |-> IF Cardinality(WithStudents(i).students) > 0
                    THEN Ratio(Sum(Flattened(i)), Cardinality(WithStudents(i).students))
                    ELSE Ratio(0, 1),
   totalStudents |-> Cardinality(WithStudents(i).students)]

\* The value the map returns for one institute: the flattened results, their
\* mean score (0 without results) and the number of students.
Rollup(i) ==
  [institute |-> [id |-> i.id, name |-> i.name, location |-> i.location],
   results |-> Flattened(i),
   averageScore |-> IF Cardinality(Flattened(i)) > 0
                    THEN Ratio(Sum(Flattened(i)), Cardinality(Flattened(i)))
                    ELSE Ratio(0, 1),
   totalStudents |-> Cardinality(WithStudents(i).students)]

\* The slot keeps the request's arguments with its response.
resultsPerInstitute(r, ctx, args) ==
  /\ Free(r)
  /\ UNCHANGED <<store, cap>>
  /\ IF requireAuthFails(ctx)
     THEN Throw(r, "resultsPerInstitute", AuthRequired)
     ELSE \E S \in Selections(args) :
            req' = [req EXCEPT ![r] =
                     [Idle EXCEPT !.op = "resultsPerInstitute", !.pc = "done",
                                  !.input = args,
                                  !.val = { Rollup(i) : i \in S }]]

\* The default of topCourses' and topStudents' limit parameter.
DefaultTop == 10

TopLimit(args) == IF Has(args, "limit") THEN args.limit ELSE DefaultTop

\* A grouping that counts a course's results of every year.
CourseCounts_allYears(year) ==
  { [courseId |-> c,
     enrollmentCount |-> Cardinality({ x \in results : x.courseId = c })] :
    c \in { x.courseId : x \in results } }

\* SELECT courseId, COUNT(id) ... WHERE year GROUP BY courseId
CourseCounts(year) ==
  { [courseId |-> c,
     enrollmentCount |->
       Cardinality({ x \in results : x.courseId = c /\ x.year = year })] :
    c \in { x.courseId : x \in { y \in results : y.year = year } } }

\* The grouping query of topCourses: ORDER BY "enrollmentCount" DESC LIMIT.
topCourses(r, ctx, args) ==
  /\ Free(r)
  /\ UNCHANGED store
  /\ IF requireAuthFails(ctx)
     THEN Throw(r, "topCourses", AuthRequired)
     ELSE IF TopLimit(args) < 0
     THEN Throw(r, "topCourses", StorageError("SequelizeDatabaseError"))
     ELSE \E rows \in Ordered(CourseCounts(args.year),
                               [g \in CourseCounts(args.year) |-> 0 - g.enrollmentCount]) :
            Await(r, "topCourses", "details", 0, args,
                  [id |-> 0, rows |-> Window(rows, TopLimit(args), 0)])

\* Promise.all of Course.findByPk for each group.
topCourses_details(r) ==
  /\ req[r].op = "topCourses" /\ req[r].pc = "details"
  /\ UNCHANGED store
  /\ ReturnOn(r, [n \in DOMAIN req[r].snap.rows |->
                    [course |-> findByPk(courses, req[r].snap.rows[n].courseId),
                     enrollmentCount |-> req[r].snap.rows[n].enrollmentCount,
                     year |-> req[r].input.year]])

\* A grouping that only sees the results of 2024.
StudentTotals_oneYear ==
  { [studentId |-> s,
     totalScore |-> Sum({ x \in results : x.studentId = s /\ x.year = 2024 }),
     averageScore |-> Ratio(Sum({ x \in results : x.studentId = s /\ x.year = 2024 }),
                            Cardinality({ x \in results : x.studentId = s })),
     resultCount |-> Cardinality({ x \in results : x.studentId = s })] :
    s \in { x.studentId : x \in results } }

\* SELECT studentId, SUM(score), AVG(score), COUNT(id) ... GROUP BY studentId
StudentTotals ==
  { [studentId |-> s,
     totalScore |-> Sum({ x \in results : x.studentId = s }),
     averageScore |-> Ratio(Sum({ x \in results : x.studentId = s }),
                            Cardinality({ x \in results : x.studentId = s })),
     resultCount |-> Cardinality({ x \in results : x.studentId = s })] :
    s \in { x.studentId : x \in results } }

\* The grouping query of topStudents: ORDER BY "totalScore" DESC LIMIT.
topStudents(r, ctx, args) ==
  /\ Free(r)
  /\ UNCHANGED store
  /\ IF requireAuthFails(ctx)
     THEN Throw(r, "topStudents", AuthRequired)
     ELSE IF TopLimit(args) < 0
     THEN Throw(r, "topStudents", StorageError("SequelizeDatabaseError"))
     ELSE \E rows \in Ordered(StudentTotals,
                               [g \in StudentTotals |-> 0 - g.totalScore]) :
            Await(r, "topStudents", "details", 0, args,
                  [id |-> 0, rows |-> Window(rows, TopLimit(args), 0)])

\* Promise.all of Student.findByPk for each group.
topStudents_details(r) ==
  /\ req[r].op = "topStudents" /\ req[r].pc = "details"
  /\ UNCHANGED store
  /\ ReturnOn(r, [n \in DOMAIN req[r].snap.rows |->
                    [student |-> findByPk(students, req[r].snap.rows[n].studentId),
                     totalScore |-> req[r].snap.rows[n].totalScore,
                     averageScore |-> req[r].snap.rows[n].averageScore,
                     resultCount |-> req[r].snap.rows[n].resultCount]])

\* ---------------------------------------------------------------- helpers
\* A helper is called with its argument in slot r; the slot keeps the argument
\* and what the helper threw or returned.
Called(r, op) == req[r].op = op /\ req[r].pc = "call"

Call(op, input) == [Idle EXCEPT !.op = op, !.pc = "call", !.input = input]

Outcome(r, e, v) ==
  /\ UNCHANGED <<store, cap>>
  /\ req' = [req EXCEPT ![r].pc = IF e = NoErr THEN "done" ELSE "failed",
                         ![r].err = e, ![r].val = v]

call_requireAuth(r) ==
  /\ Called(r, "requireAuth")
  /\ Outcome(r, requireAuth(req[r].input), NoRow)

call_requireAdmin(r) ==
  /\ Called(r, "requireAdmin")
  /\ Outcome(r, requireAdmin(req[r].input), NoRow)

call_context(r) ==
  /\ Called(r, "context")
  /\ Outcome(r, context(req[r].input).err, context(req[r].input).ctx)

call_getPaginationParams(r) ==
  /\ Called(r, "getPaginationParams")
  /\ Outcome(r, NoErr, getPaginationParams(req[r].input))

call_paginate(r) ==
  /\ Called(r, "paginate")
  /\ LET a == req[r].input
     IN Outcome(r, NoErr, paginate(a.items, a.totalCount, a.limit, a.offset))

\* ---------------------------------------------------------- specification
CreateInstituteInputs == [name : Names, location : Locations]
StudentEmails == {"a@x.io"}
CreateStudentInputs ==
  [name : Names, email : StudentEmails, instituteId : 1..cap.institutes,
   userId : 1..cap.users]
UpdateStudentInputs == Partial([instituteId : 1..cap.institutes])
SignUpInputs(passwords, names) ==
  [email : Emails \cup {BadEmail}, password : passwords, name : names,
   instituteId : 1..cap.institutes]
SignInInputs == [email : Emails, password : Passwords]
CreateCourseInputs(codes) == [title : Titles, code : codes, credits : Credits]
UpdateCourseInputs == Partial([title : Titles, code : Codes, credits : Credits])
CreateResultInputs ==
  [studentId : 1..cap.students, courseId : 1..cap.courses, score : Scores,
   grade : Grades, year : Years]

InstituteSteps(ctxs) ==
  \/ \E r \in Slots, ctx \in ctxs, input \in CreateInstituteInputs :
       createInstitute(r, ctx, input)
  \/ \E r \in Slots, ctx \in ctxs, id \in 1..cap.institutes :
       deleteInstitute(r, ctx, id)
  \/ \E r \in Slots : deleteInstitute_destroy(r)

StudentSteps(ctxs) ==
  \/ \E r \in Slots, ctx \in ctxs, input \in CreateStudentInputs :
       createStudent(r, ctx, input)
  \/ \E r \in Slots : createStudent_findUser(r)
  \/ \E r \in Slots : createStudent_create(r)
  \/ \E r \in Slots, ctx \in ctxs, id \in 1..cap.students,
        input \in UpdateStudentInputs : updateStudent(r, ctx, id, input)
  \/ \E r \in Slots : updateStudent_update(r)
  \/ \E r \in Slots, ctx \in ctxs, id \in 1..cap.students :
       deleteStudent(r, ctx, id)
  \/ \E r \in Slots : deleteStudent_destroy(r)

SignUpSteps(passwords, names) ==
  \/ \E r \in Slots, input \in SignUpInputs(passwords, names) : signUp(r, input)
  \/ \E r \in Slots : signUp_findInstitute(r)
  \/ \E r \in Slots : signUp_createUser(r)
  \/ \E r \in Slots : signUp_createStudent(r)

SignInSteps ==
  \E r \in Slots, input \in SignInInputs : signIn(r, input)

CourseSteps(ctxs, codes) ==
  \/ \E r \in Slots, ctx \in ctxs, input \in CreateCourseInputs(codes) :
       createCourse(r, ctx, input)
  \/ \E r \in Slots : createCourse_create(r)
  \/ \E r \in Slots, ctx \in ctxs, id \in 1..cap.courses :
       deleteCourse(r, ctx, id)
  \/ \E r \in Slots : deleteCourse_destroy(r)

UpdateCourseSteps(ctxs) ==
  \/ \E r \in Slots, ctx \in ctxs, id \in 1..cap.courses,
        input \in UpdateCourseInputs : updateCourse(r, ctx, id, input)
  \/ \E r \in Slots : updateCourse_findCode(r)
  \/ \E r \in Slots : updateCourse_update(r)

ResultSteps(ctxs) ==
  \/ \E r \in Slots, ctx \in ctxs, input \in CreateResultInputs :
       createResult(r, ctx, input)
  \/ \E r \in Slots : createResult_findCourse(r)
  \/ \E r \in Slots : createResult_create(r)

\* Every mutation that creates or removes a row, running concurrently.
Next ==
  \/ InstituteSteps(Principals)
  \/ StudentSteps(Principals)
  \/ SignUpSteps({"pw1"}, Names)
  \/ CourseSteps(Principals, {"CS101"})
  \/ ResultSteps(Principals)

Spec == Init /\ [][Next]_vars

\* The course catalogue alone: creates, updates and deletes of courses.
NextCourses ==
  \/ CourseSteps(Contexts, Codes)
  \/ UpdateCourseSteps(Contexts)

InitCourses ==
  InitWith(Capacity(MaxUsers, MaxInstitutes, MaxStudents, CatalogCourses, MaxResults))

SpecCourses == InitCourses /\ [][NextCourses]_vars

\* Authentication: sign-up and sign-in, with the institutes sign-up refers to.
NextAuth ==
  \/ InstituteSteps(Contexts)
  \/ SignUpSteps(Passwords, Names \cup {LongName})
  \/ SignInSteps

InitAuth ==
  InitWith(Capacity(AuthUsers, MaxInstitutes, MaxStudents, MaxCourses, MaxResults))

SpecAuth == InitAuth /\ [][NextAuth]_vars

\* Enrolment: one student signs up, courses come and go, results are recorded.
NextEnrolment ==
  \/ \E r \in Slots, ctx \in Principals, input \in CreateInstituteInputs :
       createInstitute(r, ctx, input)
  \/ SignUpSteps({"pw1"}, Names)
  \/ CourseSteps(Principals, Codes)
  \/ ResultSteps(Principals)

InitEnrolment ==
  InitWith(Capacity(MaxUsers, EnrolInstitutes, EnrolStudents, CatalogCourses, EnrolResults))

SpecEnrolment == InitEnrolment /\ [][NextEnrolment]_vars

\* Every query and every mutation of the schema, with and without a principal.
UpdateInstituteInputs == Partial([name : Names, location : Locations])
UpdateResultInputs == Partial([score : Scores, grade : Grades])
ListArgs == { <<>>, [limit |-> 1, offset |-> 1, search |-> "an"] }
TopCoursesArgs == { [year |-> y] : y \in Years } \cup [year : Years, limit : {1}]
TopStudentsArgs == { <<>>, [limit |-> 1] }
RollupArgs == { <<>> } \cup [instituteId : 1..cap.institutes]

UpdateInstituteSteps(ctxs, inputs) ==
  \/ \E r \in Slots, ctx \in ctxs, id \in 1..cap.institutes, input \in inputs :
       updateInstitute(r, ctx, id, input)
  \/ \E r \in Slots : updateInstitute_update(r)

ChangeResultSteps(ctxs, inputs) ==
  \/ \E r \in Slots, ctx \in ctxs, id \in 1..cap.results, input \in inputs :
       updateResult(r, ctx, id, input)
  \/ \E r \in Slots : updateResult_update(r)
  \/ \E r \in Slots, ctx \in ctxs, id \in 1..cap.results : deleteResult(r, ctx, id)
  \/ \E r \in Slots : deleteResult_destroy(r)

FindSteps(ctxs) ==
  \/ \E r \in Slots, ctx \in ctxs : me(r, ctx)
  \/ \E r \in Slots, ctx \in ctxs, id \in 1..cap.institutes : institute(r, ctx, id)
  \/ \E r \in Slots, ctx \in ctxs, id \in 1..cap.students : student(r, ctx, id)
  \/ \E r \in Slots, ctx \in ctxs, id \in 1..cap.courses : course(r, ctx, id)
  \/ \E r \in Slots, ctx \in ctxs, id \in 1..cap.results : result(r, ctx, id)

ListSteps(ctxs, argss) ==
  \/ \E r \in Slots, args \in argss : institutesQuery(r, args)
  \/ \E r \in Slots, ctx \in ctxs, args \in argss : studentsQuery(r, ctx, args)
  \/ \E r \in Slots, ctx \in ctxs, args \in argss : coursesQuery(r, ctx, args)
  \/ \E r \in Slots, ctx \in ctxs, args \in argss : resultsQuery(r, ctx, args)

AnalyticsSteps(ctxs, topCoursesArgs, topStudentsArgs, rollupArgs) ==
  \/ \E r \in Slots, ctx \in ctxs, args \in topCoursesArgs : topCourses(r, ctx, args)
  \/ \E r \in Slots : topCourses_details(r)
  \/ \E r \in Slots, ctx \in ctxs, args \in topStudentsArgs : topStudents(r, ctx, args)
  \/ \E r \in Slots : topStudents_details(r)
  \/ \E r \in Slots, ctx \in ctxs, args \in rollupArgs :
       resultsPerInstitute(r, ctx, args)

\* One client sends its requests one after the other: a request starts only
\* when no other slot holds a request or a response.
OneAtATime == Cardinality({ r \in Slots : req[r] # Idle }) <= 1

NextGate ==
  \/ InstituteSteps(Contexts) /\ OneAtATime'
  \/ UpdateInstituteSteps(Contexts, UpdateInstituteInputs) /\ OneAtATime'
  \/ StudentSteps(Contexts) /\ OneAtATime'
  \/ SignUpSteps({"pw1"}, Names) /\ OneAtATime'
  \/ SignInSteps /\ OneAtATime'
  \/ CourseSteps(Contexts, {"CS101"}) /\ OneAtATime'
  \/ UpdateCourseSteps(Contexts) /\ OneAtATime'
  \/ ResultSteps(Contexts) /\ OneAtATime'
  \/ ChangeResultSteps(Contexts, UpdateResultInputs) /\ OneAtATime'
  \/ FindSteps(Contexts) /\ OneAtATime'
  \/ ListSteps(Contexts, ListArgs) /\ OneAtATime'
  \/ (\E r \in Slots, ctx \in Contexts : allData(r, ctx)) /\ OneAtATime'
  \/ AnalyticsSteps(Contexts, TopCoursesArgs, TopStudentsArgs, RollupArgs)
       /\ OneAtATime'

InitGate ==
  InitWith(Capacity(GateRows, GateRows, GateRows, GateRows, GateRows))

SpecGate == InitGate /\ [][NextGate]_vars

\* The analytics queries over a populated store that does not change: the
\* rows are ones the mutations can have written (foreign keys resolve, emails
\* and codes are unique, results pass their validators).
InstituteNames ==
  <<"I01", "I02", "I03", "I04", "I05", "I06", "I07", "I08", "I09", "I10",
    "I11", "I12">>

InstitutePool(n) ==
  { [id |-> i, name |-> InstituteNames[i], location |-> "Dhaka"] : i \in 1..n }

UserPool ==
  { [id |-> 1, email |-> "a@x.io", password |-> bcryptHash("pw1"), role |-> "student"],
    [id |-> 2, email |-> "b@x.io", password |-> bcryptHash("pw1"), role |-> "student"],
    [id |-> 3, email |-> "c@x.io", password |-> bcryptHash("pw1"), role |-> "student"] }

StudentPool ==
  { [id |-> 1, name |-> "Ann", email |-> "a@x.io", instituteId |-> 1, userId |-> 1],
    [id |-> 2, name |-> "Ben", email |-> "b@x.io", instituteId |-> 1, userId |-> 2],
    [id |-> 3, name |-> "Cy", email |-> "c@x.io", instituteId |-> 2, userId |-> 3] }

CoursePool ==
  { [id |-> 1, title |-> "Algebra", code |-> "CS101", credits |-> 3],
    [id |-> 2, title |-> "Biology", code |-> "CS102", credits |-> 3],
    [id |-> 3, title |-> "Chemistry", code |-> "CS103", credits |-> 3] }

ResultRow(id, studentId, courseId, score, grade, year) ==
  [id |-> id, studentId |-> studentId, courseId |-> courseId, score |-> score,
   grade |-> grade, year |-> year]

ResultPool ==
  { ResultRow(1, 1, 1, 90, "A", 2024), ResultRow(2, 1, 2, 80, "B", 2024),
    ResultRow(3, 2, 1, 100, "A+", 2024), ResultRow(4, 3, 2, 50, "D", 2024),
    ResultRow(5, 3, 3, 50, "D", 2023), ResultRow(6, 2, 3, 70, "C", 2024) }

AnalyticsYears == {2023, 2024}
AnalyticsLimits == {-1, 1, 2}

AnalyticsTopCoursesArgs ==
  { [year |-> y] : y \in AnalyticsYears } \cup [year : AnalyticsYears, limit : AnalyticsLimits]
AnalyticsTopStudentsArgs == { <<>> } \cup [limit : AnalyticsLimits]
AnalyticsRollupArgs == { <<>> } \cup [instituteId : {1, 2, AnalyticsInstitutes + 1}]

NextAnalytics ==
  \/ (\E r \in Slots, ctx \in Principals, args \in AnalyticsTopCoursesArgs :
        topCourses(r, ctx, args)) /\ OneAtATime'
  \/ (\E r \in Slots : topCourses_details(r)) /\ OneAtATime'
  \/ (\E r \in Slots, ctx \in Principals, args \in AnalyticsTopStudentsArgs :
        topStudents(r, ctx, args)) /\ OneAtATime'
  \/ (\E r \in Slots : topStudents_details(r)) /\ OneAtATime'
  \/ (\E r \in Slots, ctx \in Principals, args \in AnalyticsRollupArgs :
        resultsPerInstitute(r, ctx, args)) /\ OneAtATime'

InitAnalytics ==
  /\ cap = Capacity(3, AnalyticsInstitutes, 3, 3, 6)
  /\ users = UserPool
  /\ institutes \in { InstitutePool(2), InstitutePool(AnalyticsInstitutes) }
  /\ students = StudentPool
  /\ courses = CoursePool
  /\ results \in SUBSET ResultPool
  /\ req = [r \in Slots |-> Idle]

SpecAnalytics == InitAnalytics /\ [][NextAnalytics]_vars

\* Find-by-id, update and delete (and createResult) over a store that holds
\* CrudRows rows of one table and the rows these depend on: stores the create
\* mutations can have written.
SeedInstitutes ==
  [users |-> {}, institutes |-> InstitutePool(CrudRows), students |-> {},
   courses |-> {}, results |-> {}]

SeedStudents ==
  [users |-> { u \in UserPool : u.id <= CrudRows },
   institutes |-> InstitutePool(CrudRows),
   students |-> { [s EXCEPT !.instituteId = 1] : s \in { t \in StudentPool : t.id <= CrudRows } },
   courses |-> {}, results |-> {}]

SeedCourses ==
  [users |-> {}, institutes |-> {}, students |-> {},
   courses |-> { c \in CoursePool : c.id <= CrudRows }, results |-> {}]

SeedResults ==
  [users |-> { u \in UserPool : u.id = 1 }, institutes |-> InstitutePool(1),
   students |-> { t \in StudentPool : t.id = 1 },
   courses |-> { c \in CoursePool : c.id = 1 },
   results |-> { ResultRow(i, 1, 1, 90, "A", 2024) : i \in 1..CrudRows }]

CrudInstituteInputs == Partial([name : {"I03"}, location : {"Sylhet"}])
CrudStudentInputs == Partial([name : {"Zed"}, instituteId : 1..CrudRows])
CrudResultInputs ==
  Partial([score : {80, 101}, grade : {"A", "E"}, year : {1999}])
CrudCreateResultInputs ==
  [studentId : {1}, courseId : {1}, score : {0 - 1, 80, 101}, grade : {"A", "E"},
   year : {2024, 2101}]

NextCrud ==
  \/ FindSteps(Principals) /\ OneAtATime'
  \/ UpdateInstituteSteps(Principals, CrudInstituteInputs) /\ OneAtATime'
  \/ (\E r \in Slots, ctx \in Principals, id \in 1..cap.institutes :
        deleteInstitute(r, ctx, id)) /\ OneAtATime'
  \/ (\E r \in Slots : deleteInstitute_destroy(r)) /\ OneAtATime'
  \/ (\E r \in Slots, ctx \in Principals, id \in 1..cap.students,
         input \in CrudStudentInputs : updateStudent(r, ctx, id, input)) /\ OneAtATime'
  \/ (\E r \in Slots : updateStudent_update(r)) /\ OneAtATime'
  \/ (\E r \in Slots, ctx \in Principals, id \in 1..cap.students :
        deleteStudent(r, ctx, id)) /\ OneAtATime'
  \/ (\E r \in Slots : deleteStudent_destroy(r)) /\ OneAtATime'
  \/ UpdateCourseSteps(Principals) /\ OneAtATime'
  \/ (\E r \in Slots, ctx \in Principals, id \in 1..cap.courses :
        deleteCourse(r, ctx, id)) /\ OneAtATime'
  \/ (\E r \in Slots : deleteCourse_destroy(r)) /\ OneAtATime'
  \/ (\E r \in Slots, ctx \in Principals, input \in CrudCreateResultInputs :
        createResult(r, ctx, input)) /\ OneAtATime'
  \/ (\E r \in Slots : createResult_findCourse(r)) /\ OneAtATime'
  \/ (\E r \in Slots : createResult_create(r)) /\ OneAtATime'
  \/ ChangeResultSteps(Principals, CrudResultInputs) /\ OneAtATime'

InitCrud ==
  /\ cap = Capacity(CrudRows, CrudRows, CrudRows, CrudRows, CrudRows)
  /\ \E seed \in { SeedInstitutes, SeedStudents, SeedCourses, SeedResults } :
       /\ users = seed.users
       /\ institutes = seed.institutes
       /\ students = seed.students
       /\ courses = seed.courses
       /\ results = seed.results
  /\ req = [r \in Slots |-> Idle]

SpecCrud == InitCrud /\ [][NextCrud]_vars

\* The list queries, two requests side by side, over a store nothing writes:
\* two rows per table, whose names and scores are equal or differ.
ListNames == <<"I01", "I02">>
ListStudentNames == <<"Ann", "Ben">>
ListScores == <<80, 90>>

ListStore(n) ==
  [users |-> { u \in UserPool : u.id <= ListRows },
   institutes |->
     { [id |-> i, name |-> ListNames[n[i]], location |-> "Dhaka"] : i \in 1..ListRows },
   students |->
     { [s EXCEPT !.name = ListStudentNames[n[s.id]], !.instituteId = 1] :
         s \in { t \in StudentPool : t.id <= ListRows } },
   courses |-> { c \in CoursePool : c.id <= ListRows },
   results |-> { ResultRow(i, 1, 1, ListScores[n[i]], "A", 2024) : i \in 1..ListRows }]

ListingArgs == { <<>> } \cup [limit : {1, 2}, offset : 0..ListRows]

NextListing ==
  \/ \E r \in Slots, args \in ListingArgs : institutesQuery(r, args)
  \/ \E r \in Slots, ctx \in Principals, args \in ListingArgs :
       studentsQuery(r, ctx, args)
  \/ \E r \in Slots, ctx \in Principals, args \in ListingArgs :
       coursesQuery(r, ctx, args)
  \/ \E r \in Slots, ctx \in Principals, args \in ListingArgs :
       resultsQuery(r, ctx, args)

InitListing ==
  /\ cap = Capacity(ListRows, ListRows, ListRows, ListRows, ListRows)
  /\ \E n \in [1..ListRows -> 1..2] :
       /\ users = ListStore(n).users
       /\ institutes = ListStore(n).institutes
       /\ students = ListStore(n).students
       /\ courses = ListStore(n).courses
       /\ results = ListStore(n).results
  /\ req = [r \in Slots |-> Idle]

SpecListing == InitListing /\ [][NextListing]_vars

\* The two rankings next to deletes of the courses and students they rank: two
\* requests interleave at every await.
RankingStore ==
  [users |-> { u \in UserPool : u.id <= RankRows },
   institutes |-> InstitutePool(1),
   students |->
     { [s EXCEPT !.instituteId = 1] : s \in { t \in StudentPool : t.id <= RankRows } },
   courses |-> { c \in CoursePool : c.id <= RankRows },
   results |-> { x \in ResultPool : x.studentId <= RankRows /\ x.courseId <= RankRows }]

NextRanking ==
  \/ \E r \in Slots, ctx \in Principals, args \in [year : {2024}, limit : {1, 2}] :
       topCourses(r, ctx, args)
  \/ \E r \in Slots : topCourses_details(r)
  \/ \E r \in Slots, ctx \in Principals, args \in { <<>>, [limit |-> 1] } :
       topStudents(r, ctx, args)
  \/ \E r \in Slots : topStudents_details(r)
  \/ \E r \in Slots, ctx \in Principals, id \in 1..cap.courses :
       deleteCourse(r, ctx, id)
  \/ \E r \in Slots : deleteCourse_destroy(r)
  \/ \E r \in Slots, ctx \in Principals, id \in 1..cap.students :
       deleteStudent(r, ctx, id)
  \/ \E r \in Slots : deleteStudent_destroy(r)

InitRanking ==
  /\ cap = Capacity(RankRows, 1, RankRows, RankRows, Cardinality(RankingStore.results))
  /\ users = RankingStore.users
  /\ institutes = RankingStore.institutes
  /\ students = RankingStore.students
  /\ courses = RankingStore.courses
  /\ results = RankingStore.results
  /\ req = [r \in Slots |-> Idle]

SpecRanking == InitRanking /\ [][NextRanking]_vars

\* Every query and mutation, asked by a principal of either role: the student
\* of Principals and the same principal with the role admin.
AsAdmin(ctx) == [ctx EXCEPT !.role = "admin"]

RoleContexts == Principals \cup { AsAdmin(ctx) : ctx \in Principals }

NextRoles ==
  \/ InstituteSteps(RoleContexts) /\ OneAtATime'
  \/ UpdateInstituteSteps(RoleContexts, UpdateInstituteInputs) /\ OneAtATime'
  \/ StudentSteps(RoleContexts) /\ OneAtATime'
  \/ SignUpSteps({"pw1"}, Names) /\ OneAtATime'
  \/ SignInSteps /\ OneAtATime'
  \/ CourseSteps(RoleContexts, {"CS101"}) /\ OneAtATime'
  \/ UpdateCourseSteps(RoleContexts) /\ OneAtATime'
  \/ ResultSteps(RoleContexts) /\ OneAtATime'
  \/ ChangeResultSteps(RoleContexts, UpdateResultInputs) /\ OneAtATime'
  \/ FindSteps(RoleContexts) /\ OneAtATime'
  \/ ListSteps(RoleContexts, ListArgs) /\ OneAtATime'
  \/ (\E r \in Slots, ctx \in RoleContexts : allData(r, ctx)) /\ OneAtATime'
  \/ AnalyticsSteps(RoleContexts, TopCoursesArgs, TopStudentsArgs, RollupArgs)
       /\ OneAtATime'

SpecRoles == InitGate /\ [][NextRoles]_vars

\* Sign-up and sign-in side by side, with passwords short and long, the
\* institute sign-up refers to being there from the start.
SignInPasswords == Passwords \cup LongPasswords

NextSignIn ==
  \/ SignUpSteps({"pw1", "72-bytes-and-x"}, Names)
  \/ \E r \in Slots, input \in [email : Emails, password : SignInPasswords] :
       signIn(r, input)

InitSignIn ==
  /\ cap = Capacity(AuthUsers, 1, AuthUsers, MaxCourses, MaxResults)
  /\ users = {}
  /\ institutes = InstitutePool(1)
  /\ students = {}
  /\ courses = {}
  /\ results = {}
  /\ req = [r \in Slots |-> Idle]

SpecSignIn == InitSignIn /\ [][NextSignIn]_vars

\* ----------------------------------------------------------------- seeder
\* seedData runs in slot 1; the worker threads of the phase in progress are the
\* sequence held in slot 2, each with its count, what it has inserted and
\* whether it has posted "complete".
seedMain == req[1]

seedPool == req[2]

CPU_COUNT == seedMain.input.CPU_COUNT

\* Math.ceil(total / CPU_COUNT)
PerWorker(total, cpus) == (total + cpus - 1) \div cpus

\* A split that hands every worker the full share.
WorkerCount_uncapped(total, cpus, i) == PerWorker(total, cpus)

\* count of the worker started at i: Math.min(perWorker, total - i * perWorker)
WorkerCount(total, cpus, i) ==
  Min(PerWorker(total, cpus), total - i * PerWorker(total, cpus))

\* The workers the loop over 0..CPU_COUNT-1 creates: those whose count is positive.
Started(total, cpus) == { i \in 0..(cpus - 1) : WorkerCount(total, cpus, i) > 0 }

RECURSIVE WorkersFrom(_, _, _, _)
WorkersFrom(i, total, cpus, entityType) ==
  IF i >= cpus
  THEN <<>>
  ELSE (IF i \in Started(total, cpus)
        THEN << [entityType |-> entityType, startIndex |-> i * PerWorker(total, cpus),
                 count |-> WorkerCount(total, cpus, i), inserted |-> 0,
                 complete |-> FALSE] >>
        ELSE <<>>)
       \o WorkersFrom(i + 1, total, cpus, entityType)

\* The loop of createWorker calls of one phase; seedData then awaits them all.
createWorkers(entityType, total, pc, relatedData) ==
  /\ UNCHANGED <<store, cap>>
  /\ req' = [req EXCEPT
              ![1] = [seedMain EXCEPT !.pc = pc],
              ![2] = [Idle EXCEPT !.op = "seedWorker", !.pc = entityType,
                                  !.input = WorkersFrom(0, total, CPU_COUNT, entityType),
                                  !.snap = relatedData]]

\* Promise.all of the phase's workers has resolved: each has posted "complete".
AllComplete ==
  \A w \in DOMAIN seedPool.input : seedPool.input[w].complete

SeedEmail == <<"student0@example.com", "student1@example.com", "student2@example.com",
               "student3@example.com">>

SeedCode == <<"COURSE-000001", "COURSE-000002", "COURSE-000003", "COURSE-000004">>

\* The rows a worker generates for one batch: ids are fresh UUIDs, a result's
\* student and course are drawn from relatedData.
NewRows(entityType, n, relatedData) ==
  CASE entityType = "institutes" ->
         { { [id |-> Cardinality(institutes) + k, name |-> "I01", location |-> "Dhaka"] :
               k \in 1..n } }
    [] entityType = "courses" ->
         { { [id |-> Cardinality(courses) + k, title |-> "Algebra",
              code |-> SeedCode[Cardinality(courses) + k], credits |-> 3] : k \in 1..n } }
    [] entityType = "results" ->
         { { ResultRow(Cardinality(results) + k, pick[k].studentId, pick[k].courseId,
                       90, "A", 2024) : k \in 1..n } :
             pick \in [1..n -> [studentId : relatedData.studentIds,
                                courseId : relatedData.courseIds]] }

\* seedWorker: one pass of its batch loop, the raw INSERT of a batch.
seedWorker_insert(w) ==
  /\ seedPool.op = "seedWorker"
  /\ w \in DOMAIN seedPool.input
  /\ seedPool.input[w].inserted < seedPool.input[w].count
  /\ LET worker == seedPool.input[w]
         batchSize == Min(BATCH_SIZE, worker.count - worker.inserted)
     IN /\ \E rows \in NewRows(worker.entityType, batchSize, seedPool.snap) :
             /\ institutes' = IF worker.entityType = "institutes"
                              THEN institutes \cup rows ELSE institutes
             /\ courses' = IF worker.entityType = "courses"
                           THEN courses \cup rows ELSE courses
             /\ results' = IF worker.entityType = "results"
                           THEN results \cup rows ELSE results
        /\ req' = [req EXCEPT ![2].input[w].inserted = worker.inserted + batchSize]
  /\ UNCHANGED <<users, students, cap>>

\* seedWorker past its loop: it posts "complete" and createWorker's promise resolves.
seedWorker_complete(w) ==
  /\ seedPool.op = "seedWorker"
  /\ w \in DOMAIN seedPool.input
  /\ seedPool.input[w].inserted >= seedPool.input[w].count
  /\ ~seedPool.input[w].complete
  /\ req' = [req EXCEPT ![2].input[w].complete = TRUE]
  /\ UNCHANGED <<store, cap>>

\* Step 1: the institute workers.
seedData_institutes ==
  /\ seedMain.op = "seedData" /\ seedMain.pc = "institutes"
  /\ createWorkers("institutes", instituteCount, "awaitInstitutes", NoRow)

\* await Promise.all(institutePromises), then Institute.findAll for the ids.
seedData_fetchInstitutes ==
  /\ seedMain.op = "seedData" /\ seedMain.pc = "awaitInstitutes"
  /\ AllComplete
  /\ UNCHANGED <<store, cap>>
  /\ req' = [req EXCEPT ![1] = [seedMain EXCEPT !.pc = "users", !.id = 0,
                                                !.snap = [instituteIds |-> Ids(institutes),
                                                          userIds |-> <<>>,
                                                          studentIds |-> {},
                                                          courseIds |-> {}]]]

\* Step 2: one pass of the loop of User.bulkCreate batches.
seedData_users ==
  /\ seedMain.op = "seedData" /\ seedMain.pc = "users"
  /\ LET i == seedMain.id
         batchSize == Min(userBatchSize, userCount - i)
         batch == [idx \in 1..batchSize |->
                     [id |-> Cardinality(users) + idx, email |-> SeedEmail[i + idx],
                      password |-> bcryptHash("password123"), role |-> "student"]]
     IN /\ \A idx \in 1..batchSize : UserEmailFree(batch[idx].email)
        /\ users' = users \cup { batch[idx] : idx \in 1..batchSize }
        /\ req' = [req EXCEPT
                    ![1] = [seedMain EXCEPT
                              !.pc = IF i + userBatchSize < userCount
                                     THEN "users" ELSE "students",
                              !.id = IF i + userBatchSize < userCount
                                     THEN i + userBatchSize ELSE 0,
                              !.snap.userIds =
                                 @ \o [idx \in 1..batchSize |-> batch[idx].id]]]
  /\ UNCHANGED <<institutes, students, courses, results, cap>>

\* Step 3: one pass of the loop of Student.bulkCreate batches.
seedData_students ==
  /\ seedMain.op = "seedData" /\ seedMain.pc = "students"
  /\ LET i == seedMain.id
         batchSize == Min(studentBatchSize, studentCount - i)
     IN \E pick \in [1..batchSize -> seedMain.snap.instituteIds] :
          LET batch == [idx \in 1..batchSize |->
                          [id |-> Cardinality(students) + idx, name |-> "Ann",
                           email |-> SeedEmail[i + idx], instituteId |-> pick[idx],
                           userId |-> seedMain.snap.userIds[i + idx]]]
          IN /\ \A idx \in 1..batchSize :
                  StudentFkOk(batch[idx].instituteId, batch[idx].userId)
             /\ students' = students \cup { batch[idx] : idx \in 1..batchSize }
             /\ req' = [req EXCEPT
                         ![1] = [seedMain EXCEPT
                                   !.pc = IF i + studentBatchSize < studentCount
                                          THEN "students" ELSE "courses",
                                   !.id = IF i + studentBatchSize < studentCount
                                          THEN i + studentBatchSize ELSE 0,
                                   !.snap.studentIds =
                                      @ \cup { batch[idx].id : idx \in 1..batchSize }]]
  /\ UNCHANGED <<users, institutes, courses, results, cap>>

\* Step 4: the course workers.
seedData_courses ==
  /\ seedMain.op = "seedData" /\ seedMain.pc = "courses"
  /\ createWorkers("courses", courseCount, "awaitCourses", NoRow)

\* await Promise.all(coursePromises), then Course.findAll for the ids.
seedData_fetchCourses ==
  /\ seedMain.op = "seedData" /\ seedMain.pc = "awaitCourses"
  /\ AllComplete
  /\ UNCHANGED <<store, cap>>
  /\ req' = [req EXCEPT ![1] = [seedMain EXCEPT !.pc = "results",
                                                !.snap.courseIds = Ids(courses)]]

\* Step 5: the result workers, with the student and course ids.
seedData_results ==
  /\ seedMain.op = "seedData" /\ seedMain.pc = "results"
  /\ createWorkers("results", resultCount, "awaitResults",
                   [studentIds |-> seedMain.snap.studentIds,
                    courseIds |-> seedMain.snap.courseIds])

\* await Promise.all(resultPromises), then the summary.
seedData_summary ==
  /\ seedMain.op = "seedData" /\ seedMain.pc = "awaitResults"
  /\ AllComplete
  /\ UNCHANGED <<store, cap>>
  /\ req' = [req EXCEPT ![1] = [seedMain EXCEPT !.pc = "done"]]

NextSeeder ==
  \/ seedData_institutes
  \/ seedData_fetchInstitutes
  \/ seedData_users
  \/ seedData_students
  \/ seedData_courses
  \/ seedData_fetchCourses
  \/ seedData_results
  \/ seedData_summary
  \/ \E w \in 1..MaxCpus : seedWorker_insert(w)
  \/ \E w \in 1..MaxCpus : seedWorker_complete(w)

\* An empty database, and a machine of one to MaxCpus cores.
InitSeeder ==
  /\ cap = Capacity(userCount, instituteCount, studentCount, courseCount, resultCount)
  /\ users = {}
  /\ institutes = {}
  /\ students = {}
  /\ courses = {}
  /\ results = {}
  /\ \E n \in 1..MaxCpus :
       req = [r \in Slots |->
                IF r = 1
                THEN [Idle EXCEPT !.op = "seedData", !.pc = "institutes",
                                  !.input = [CPU_COUNT |-> n]]
                ELSE Idle]

SpecSeeder == InitSeeder /\ [][NextSeeder]_vars

\* The helpers, each applied to an argument drawn at the start.
HelperCalls ==
  { Call("requireAuth", ctx) : ctx \in Contexts \cup Admins }
  \cup { Call("requireAdmin", ctx) : ctx \in Contexts \cup Admins }
  \cup { Call("context", header) : header \in Headers }

NextHelpers ==
  \/ \E r \in Slots : call_requireAuth(r)
  \/ \E r \in Slots : call_requireAdmin(r)
  \/ \E r \in Slots : call_context(r)

InitHelpers ==
  /\ cap = Capacity(0, 0, 0, 0, 0)
  /\ users = {}
  /\ institutes = {}
  /\ students = {}
  /\ courses = {}
  /\ results = {}
  /\ req \in [Slots -> HelperCalls]

SpecHelpers == InitHelpers /\ [][NextHelpers]_vars

\* The Int values a client can send as limit and offset.
Limits == {-1, 0, 1, 50, 100, 101, 150}
Offsets == {-1, 0, 1, 5}
PaginationArgs == Partial([limit : Limits, offset : Offsets])

\* Pages of rows of two entity types, as findAndCountAll hands them over.
SampleRows ==
  { [id |-> 1, name |-> "Ann", location |-> "Dhaka"],
    [id |-> 1, title |-> "Algebra", code |-> "CS101", credits |-> 3] }

Pages == UNION { [1..n -> SampleRows] : n \in 0..MaxItems }

PaginateArgs ==
  [items : Pages, totalCount : 0..MaxTotal, limit : {1, DefaultLimit},
   offset : 0..1]

PagingCalls ==
  { Call("getPaginationParams", args) : args \in PaginationArgs }
  \cup { Call("paginate", args) : args \in PaginateArgs }

NextPaging ==
  \/ \E r \in Slots : call_getPaginationParams(r)
  \/ \E r \in Slots : call_paginate(r)

InitPaging ==
  /\ cap = Capacity(0, 0, 0, 0, 0)
  /\ users = {}
  /\ institutes = {}
  /\ students = {}
  /\ courses = {}
  /\ results = {}
  /\ req \in [Slots -> PagingCalls]

SpecPaging == InitPaging /\ [][NextPaging]_vars

\* ============================================================== properties
\* Slot r's handler, awaiting at pc of op, takes its next step.
Resumes(r, op, pc) ==
  req[r].op = op /\ req[r].pc = pc /\ req'[r] # req[r]

\* Slot r, free, takes a request for op.
Begins(r, op) ==
  Free(r) /\ req'[r] # req[r] /\ req'[r].op = op

\* The step ends slot r's handler with a GraphQLError of this code and writes nothing.
Rejected(r, code) ==
  /\ req'[r].pc = "failed"
  /\ req'[r].err.code = code
  /\ UNCHANGED store

FailedWith(r, op, message) ==
  req[r].op = op /\ req[r].pc = "failed" /\ req[r].err.message = message

\* C1: in every reachable state every student's instituteId and userId name an
\* existing institute and an existing user, and every result's studentId and
\* courseId name an existing student and an existing course.
C1_RefIntegrity ==
  /\ \A s \in students :
       Exists(institutes, s.instituteId) /\ Exists(users, s.userId)
  /\ \A x \in results :
       Exists(students, x.studentId) /\ Exists(courses, x.courseId)

\* A result is on record, and an insert that raced a delete was refused by a
\* foreign key.
C1_Witness ==
  /\ students # {} /\ results # {}
  /\ \E r \in Slots :
       /\ req[r].pc = "failed"
       /\ req[r].err.message = "SequelizeForeignKeyConstraintError"

\* C2: the destroy of deleteInstitute(id) returns, removes the institute, every
\* student whose instituteId is id and every result of those students, and
\* leaves every other institute, student and result, and every course and
\* user, as it was.
C2_DeleteInstituteCascade ==
  [][\A r \in Slots :
       Resumes(r, "deleteInstitute", "destroy") =>
         LET id == req[r].id
             gone == { s \in students : s.instituteId = id }
         IN /\ req'[r].pc = "done"
            /\ institutes' = { i \in institutes : i.id # id }
            /\ students' = students \ gone
            /\ results' = { x \in results : x.studentId \notin Ids(gone) }
            /\ users' = users
            /\ courses' = courses]_vars

\* deleteInstitute is about to destroy an institute that has a student with a
\* result, while another institute has a student of its own.
C2_Witness ==
  \E r \in Slots :
    /\ req[r].op = "deleteInstitute" /\ req[r].pc = "destroy"
    /\ \E s \in students :
         /\ s.instituteId = req[r].id
         /\ \E x \in results : x.studentId = s.id
    /\ \E t \in students : t.instituteId # req[r].id
    /\ \E i \in institutes : i.id # req[r].id

\* C3: the destroy of deleteStudent(id) returns, removes the student and every
\* result whose studentId is id, and leaves every user as it was: every sign-in
\* has the outcome it had, no user's student is the deleted one, and a user
\* that had no other student has none.
C3_DeleteStudentKeepsUser ==
  [][\A r \in Slots :
       Resumes(r, "deleteStudent", "destroy") =>
         LET id == req[r].id
         IN /\ req'[r].pc = "done"
            /\ students' = { s \in students : s.id # id }
            /\ results' = { x \in results : x.studentId # id }
            /\ users' = users
            /\ \A input \in SignInInputs :
                 signInOutcome(input)' = signInOutcome(input)
            /\ \A u \in users :
                 /\ id \notin Ids(StudentsOfUser(u.id)')
                 /\ Ids(StudentsOfUser(u.id)) \subseteq {id}
                      => StudentsOfUser(u.id)' = {}]_vars

\* deleteStudent is about to destroy a student that has a result and is the one
\* student of its user, who can sign in.
C3_Witness ==
  \E r \in Slots :
    /\ req[r].op = "deleteStudent" /\ req[r].pc = "destroy"
    /\ \E x \in results : x.studentId = req[r].id
    /\ \E u \in users :
         /\ Ids(StudentsOfUser(u.id)) = {req[r].id}
         /\ \E input \in SignInInputs : signInOutcome(input).val # NoRow

\* C4: the destroy of deleteCourse(id) returns, removes the course and every
\* result whose courseId is id, and leaves every other course and result, and
\* every student, institute and user, as it was.
C4_DeleteCourseCascade ==
  [][\A r \in Slots :
       Resumes(r, "deleteCourse", "destroy") =>
         LET id == req[r].id
         IN /\ req'[r].pc = "done"
            /\ courses' = { c \in courses : c.id # id }
            /\ results' = { x \in results : x.courseId # id }
            /\ students' = students
            /\ institutes' = institutes
            /\ users' = users]_vars

\* deleteCourse is about to destroy a course that has a result, while another
\* course has a result too.
C4_Witness ==
  \E r \in Slots :
    /\ req[r].op = "deleteCourse" /\ req[r].pc = "destroy"
    /\ \E x \in results : x.courseId = req[r].id
    /\ \E c \in courses :
         /\ c.id # req[r].id
         /\ \E x \in results : x.courseId = c.id

\* C5: in every reachable state no two courses have the same code, whatever
\* createCourse and updateCourse calls ran and however they interleaved.
C5_CourseCodeUnique ==
  \A c, d \in courses : c.code = d.code => c.id = d.id

\* Two requests have both passed the resolver's check for the same code and
\* neither has written yet.
PassedCodeCheck(r) ==
  \/ req[r].op = "createCourse" /\ req[r].pc = "create"
  \/ /\ req[r].op = "updateCourse" /\ req[r].pc = "update"
     /\ Truthy(req[r].input, "code")
     /\ req[r].input.code # req[r].snap.code

C5_Witness ==
  \E r, q \in Slots :
    /\ r # q
    /\ PassedCodeCheck(r) /\ PassedCodeCheck(q)
    /\ req[r].input.code = req[q].input.code
    /\ \A c \in courses : c.code # req[r].input.code

\* The code is the code of a course other than selfId.
HeldByOther(code, selfId) ==
  \E c \in courses : c.code = code /\ c.id # selfId

\* C6: createCourse and updateCourse are rejected with BAD_USER_INPUT, writing
\* nothing, exactly when the supplied code is held by a different course: an
\* authenticated createCourse is rejected exactly when some course has the
\* code; an updateCourse of an existing course whose supplied code another
\* course holds goes to the lookup of that code, which rejects it; and an
\* updateCourse supplying the course's own code goes straight to the update,
\* which raises no uniqueness error.
C6_RejectedExactlyWhenCodeHeld ==
  [][/\ \A r \in Slots, ctx \in Principals, input \in CreateCourseInputs(Codes) :
          (Begins(r, "createCourse") /\ createCourse(r, ctx, input)) =>
            (HeldByOther(input.code, 0) <=> Rejected(r, "BAD_USER_INPUT"))
     /\ \A r \in Slots, ctx \in Principals, id \in 1..cap.courses,
           input \in UpdateCourseInputs :
          (/\ Begins(r, "updateCourse")
           /\ Exists(courses, id) /\ Has(input, "code")
           /\ updateCourse(r, ctx, id, input)) =>
            /\ HeldByOther(input.code, id) => req'[r].pc = "findCode"
            /\ input.code = findByPk(courses, id).code => req'[r].pc = "update"
            /\ req'[r].pc # "failed"
     /\ \A r \in Slots :
          Resumes(r, "updateCourse", "findCode") =>
            /\ HeldByOther(req[r].input.code, req[r].id) => Rejected(r, "BAD_USER_INPUT")
            /\ Rejected(r, "BAD_USER_INPUT") => findCourseByCode(req[r].input.code) # NoRow
     /\ \A r \in Slots :
          (/\ Resumes(r, "updateCourse", "update")
           /\ Has(req[r].input, "code")
           /\ \E c \in courses : c.id = req[r].id /\ c.code = req[r].input.code) =>
            req'[r].err.message # "SequelizeUniqueConstraintError"]_vars

\* updateCourse is about to write a code that another course holds, the
\* resolver having made no lookup of it.
C6_Witness ==
  \E r \in Slots :
    /\ req[r].op = "updateCourse" /\ req[r].pc = "update"
    /\ Has(req[r].input, "code")
    /\ req[r].snap.code # req[r].input.code
    /\ ~Truthy(req[r].input, "code")
    /\ HeldByOther(req[r].input.code, req[r].id)

PairOrNeither(userId) ==
  \/ Exists(users, userId) /\ Cardinality(StudentsOfUser(userId)) = 1
  \/ ~Exists(users, userId) /\ StudentsOfUser(userId) = {}

\* C8: a signUp that has inserted its User ends with exactly one Student
\* referencing that user, or with neither row.
C8_SignUpPairAtomic ==
  [][\A r \in Slots, userId \in 1..cap.users :
       (Resumes(r, "signUp", "createStudent") /\ userId = req[r].snap.id) =>
         PairOrNeither(userId)']_vars

\* A signUp has failed on its Student insert and its User is left without a
\* student.
C8_Witness ==
  /\ \E r \in Slots :
       \/ FailedWith(r, "signUp", "SequelizeForeignKeyConstraintError")
       \/ FailedWith(r, "signUp", "SequelizeDatabaseError")
  /\ \E u \in users : StudentsOfUser(u.id) = {}
  /\ \A r \in Slots : req[r].op = "signUp" => Free(r)

InvalidCredentials == GraphQLError("Invalid credentials", "UNAUTHENTICATED")

\* C10: a signIn with an email no user has and a signIn with a user's email and
\* a wrong password get the same error, message "Invalid credentials" and code
\* UNAUTHENTICATED, in every reachable state and in every response given.
C10_SignInErrorUniform ==
  /\ \A a, b \in SignInInputs :
       (/\ findUserByEmail(a.email) = NoRow
        /\ findUserByEmail(b.email) # NoRow
        /\ ~bcryptCompare(b.password, findUserByEmail(b.email).password)) =>
         /\ signInOutcome(a).err = signInOutcome(b).err
         /\ signInOutcome(a).err = InvalidCredentials
  /\ \A r \in Slots :
       (req[r].op = "signIn" /\ req[r].pc = "failed") => req[r].err = InvalidCredentials

\* Two sign-ins have failed: one with an email no user has, one with the email
\* of a user and a password that is not that user's.
C10_Witness ==
  \E r, q \in Slots :
    /\ req[r].op = "signIn" /\ req[r].pc = "failed"
    /\ req[q].op = "signIn" /\ req[q].pc = "failed"
    /\ findUserByEmail(req[r].input.email) = NoRow
    /\ findUserByEmail(req[q].input.email) # NoRow
    /\ ~bcryptCompare(req[q].input.password,
                      findUserByEmail(req[q].input.email).password)

\* C11: requireAuth refuses a context without a principal with
\* UNAUTHENTICATED and lets every other context through; requireAdmin refuses a
\* context without a principal with UNAUTHENTICATED, a principal whose role is
\* not admin with FORBIDDEN, and lets an admin through.
C11_GateHelpers ==
  \A r \in Slots :
    /\ (req[r].op = "requireAuth" /\ req[r].pc # "call") =>
         IF req[r].input = NoUser
         THEN req[r].pc = "failed" /\ req[r].err.code = "UNAUTHENTICATED"
         ELSE req[r].pc = "done" /\ req[r].err = NoErr
    /\ (req[r].op = "requireAdmin" /\ req[r].pc # "call") =>
         IF req[r].input = NoUser
         THEN req[r].pc = "failed" /\ req[r].err.code = "UNAUTHENTICATED"
         ELSE IF req[r].input.role # "admin"
         THEN req[r].pc = "failed" /\ req[r].err.code = "FORBIDDEN"
         ELSE req[r].pc = "done" /\ req[r].err = NoErr

C11_Witness ==
  \E r, q \in Slots :
    /\ req[r].op = "requireAdmin" /\ req[r].input = NoUser
    /\ req[r].pc = "failed" /\ req[r].err.code = "UNAUTHENTICATED"
    /\ req[q].op = "requireAdmin" /\ req[q].input \in Principals
    /\ req[q].pc = "failed" /\ req[q].err.code = "FORBIDDEN"

\* C12: building the context never rejects the request; without an
\* Authorization header, or with a token that fails verification (wrong
\* signature, expired, not a token), the context has no principal; with a
\* token that verifies the context is the token's payload.
C12_ContextNeverRejects ==
  \A r \in Slots :
    (req[r].op = "context" /\ req[r].pc # "call") =>
      /\ req[r].pc = "done" /\ req[r].err = NoErr
      /\ req[r].val =
           IF req[r].input.present /\ req[r].input.rest # EmptyToken
              /\ req[r].input.rest.key = Secret /\ ~req[r].input.rest.expired
           THEN req[r].input.rest.payload
           ELSE NoUser

C12_Witness ==
  \E r, q \in Slots :
    /\ req[r].op = "context" /\ req[r].pc = "done"
    /\ req[r].input.present /\ req[r].input.rest.expired
    /\ req[r].input.rest.key = Secret
    /\ req[r].val = NoUser
    /\ req[q].op = "context" /\ req[q].pc = "done"
    /\ req[q].input.present /\ req[q].val \in Principals

\* C14: getPaginationParams returns limit 100 for a requested limit above 100,
\* limit 10 for an absent, zero or negative one, and the requested limit
\* itself from 1 to 100; the returned limit is always between 1 and 100.
C14_LimitNormalised ==
  \A r \in Slots :
    (req[r].op = "getPaginationParams" /\ req[r].pc # "call") =>
      /\ req[r].val.limit =
           IF ~Has(req[r].input, "limit") \/ req[r].input.limit <= 0
           THEN 10
           ELSE IF req[r].input.limit > 100 THEN 100 ELSE req[r].input.limit
      /\ req[r].val.limit \in 1..100

C14_Witness ==
  \E r \in Slots :
    /\ req[r].op = "getPaginationParams" /\ req[r].pc = "done"
    /\ Has(req[r].input, "limit") /\ req[r].input.limit < 0
    /\ req[r].val.limit < 0

\* C15: getPaginationParams returns offset 0 for an absent or negative
\* requested offset and the requested offset itself when it is zero or
\* positive, and it never throws.
C15_OffsetNormalised ==
  \A r \in Slots :
    (req[r].op = "getPaginationParams" /\ req[r].pc # "call") =>
      /\ req[r].pc = "done" /\ req[r].err = NoErr
      /\ req[r].val.offset =
           IF ~Has(req[r].input, "offset") \/ req[r].input.offset < 0
           THEN 0
           ELSE req[r].input.offset

C15_Witness ==
  \E r \in Slots :
    /\ req[r].op = "getPaginationParams" /\ req[r].pc = "done"
    /\ Has(req[r].input, "offset") /\ req[r].input.offset < 0
    /\ req[r].val.offset < 0

\* C16: paginate returns the items, totalCount, limit and offset it was given,
\* and hasMore is true exactly when offset + number of items < totalCount,
\* whatever the type of the items.
C16_Paginate ==
  \A r \in Slots :
    (req[r].op = "paginate" /\ req[r].pc # "call") =>
      /\ req[r].pc = "done"
      /\ req[r].val.items = req[r].input.items
      /\ req[r].val.totalCount = req[r].input.totalCount
      /\ req[r].val.limit = req[r].input.limit
      /\ req[r].val.offset = req[r].input.offset
      /\ req[r].val.hasMore <=>
           (req[r].input.offset + Len(req[r].input.items) < req[r].input.totalCount)

C16_Witness ==
  \E r, q \in Slots :
    /\ req[r].op = "paginate" /\ req[r].pc = "done"
    /\ req[r].input.offset + Len(req[r].input.items) = req[r].input.totalCount
    /\ Len(req[r].input.items) > 0 /\ ~req[r].val.hasMore
    /\ req[q].op = "paginate" /\ req[q].pc = "done"
    /\ Len(req[q].input.items) = 2
    /\ req[q].input.items[1] # req[q].input.items[2]
    /\ req[q].val.hasMore

\* The errors a resolver answers a context without a principal with.
GateErrors ==
  { AuthRequired, GraphQLError("Not authenticated", "UNAUTHENTICATED") }

\* C13: a request without a principal is refused with UNAUTHENTICATED in its
\* first step, before the store is read or written, by every query and
\* mutation except the institutes list, signUp and signIn; those three are
\* never refused for the missing principal.
C13_NoPrincipalGate ==
  [][\A r \in Slots :
       /\ ( \/ \E input \in CreateInstituteInputs : createInstitute(r, NoUser, input)
            \/ \E id \in 1..cap.institutes, input \in UpdateInstituteInputs :
                 updateInstitute(r, NoUser, id, input)
            \/ \E id \in 1..cap.institutes : deleteInstitute(r, NoUser, id)
            \/ \E input \in CreateStudentInputs : createStudent(r, NoUser, input)
            \/ \E id \in 1..cap.students, input \in UpdateStudentInputs :
                 updateStudent(r, NoUser, id, input)
            \/ \E id \in 1..cap.students : deleteStudent(r, NoUser, id)
            \/ \E input \in CreateCourseInputs(Codes) : createCourse(r, NoUser, input)
            \/ \E id \in 1..cap.courses, input \in UpdateCourseInputs :
                 updateCourse(r, NoUser, id, input)
            \/ \E id \in 1..cap.courses : deleteCourse(r, NoUser, id)
            \/ \E input \in CreateResultInputs : createResult(r, NoUser, input)
            \/ \E id \in 1..cap.results, input \in UpdateResultInputs :
                 updateResult(r, NoUser, id, input)
            \/ \E id \in 1..cap.results : deleteResult(r, NoUser, id)
            \/ me(r, NoUser)
            \/ \E id \in 1..cap.institutes : institute(r, NoUser, id)
            \/ \E id \in 1..cap.students : student(r, NoUser, id)
            \/ \E id \in 1..cap.courses : course(r, NoUser, id)
            \/ \E id \in 1..cap.results : result(r, NoUser, id)
            \/ \E args \in ListArgs : studentsQuery(r, NoUser, args)
            \/ \E args \in ListArgs : coursesQuery(r, NoUser, args)
            \/ \E args \in ListArgs : resultsQuery(r, NoUser, args)
            \/ allData(r, NoUser)
            \/ \E args \in RollupArgs : resultsPerInstitute(r, NoUser, args)
            \/ \E args \in TopCoursesArgs : topCourses(r, NoUser, args)
            \/ \E args \in TopStudentsArgs : topStudents(r, NoUser, args) )
          => Rejected(r, "UNAUTHENTICATED")
       /\ ( \/ Begins(r, "institutes")
            \/ Begins(r, "signUp")
            \/ Begins(r, "signIn") )
          => req'[r].err \notin GateErrors]_vars

\* A delete of an existing institute was refused for the missing principal,
\* and the institute is still there.
C13_Witness ==
  \E r \in Slots :
    /\ req[r].op = "deleteInstitute" /\ req[r].pc = "failed"
    /\ req[r].err = AuthRequired
    /\ institutes # {}

\* The scores of the results in S, added up.
RECURSIVE ScoreTotal(_)
ScoreTotal(S) ==
  IF S = {}
  THEN 0
  ELSE LET x == CHOOSE y \in S : \A z \in S : y.id <= z.id
       IN ScoreTotal(S \ {x}) + x.score

ResultsOfStudent(s) == { x \in results : x.studentId = s }

\* The limit a topCourses or topStudents request asks for.
AskedLimit(args) == IF Has(args, "limit") THEN args.limit ELSE 10

\* C17: topStudents(limit) returns min(limit, number of students with a
\* result) entries, in non-increasing order of totalScore; an entry's
\* totalScore, resultCount and averageScore are the sum, the number and the
\* mean of all of that student's result scores, whatever their year, and no
\* student left out has a greater totalScore than one returned.
C17_TopStudents ==
  [][\A r \in Slots :
       Resumes(r, "topStudents", "details") =>
         LET top == req'[r].val
             having == { x.studentId : x \in results }
             named == { top[n].student.id : n \in DOMAIN top }
         IN /\ req'[r].pc = "done"
            /\ Len(top) = Min(AskedLimit(req[r].input), Cardinality(having))
            /\ \A n \in DOMAIN top :
                 /\ top[n].student \in students
                 /\ top[n].student.id \in having
                 /\ top[n].totalScore = ScoreTotal(ResultsOfStudent(top[n].student.id))
                 /\ top[n].resultCount = Cardinality(ResultsOfStudent(top[n].student.id))
                 /\ top[n].averageScore[2] > 0
                 /\ top[n].averageScore[1] * top[n].resultCount
                      = top[n].totalScore * top[n].averageScore[2]
            /\ \A m, n \in DOMAIN top :
                 /\ m < n => top[m].totalScore >= top[n].totalScore
                 /\ m # n => top[m].student.id # top[n].student.id
            /\ \A s \in having \ named, n \in DOMAIN top :
                 ScoreTotal(ResultsOfStudent(s)) <= top[n].totalScore]_vars

\* S1 has 90 and 80, S2 has 100, S3 has 50 in another year: the answer is
\* S1, S2, S3 with totals 170, 100, 50.
C17_Witness ==
  \E r \in Slots :
    /\ req[r].op = "topStudents" /\ req[r].pc = "done"
    /\ results = { ResultRow(1, 1, 1, 90, "A", 2024), ResultRow(2, 1, 2, 80, "B", 2024),
                   ResultRow(3, 2, 1, 100, "A+", 2024), ResultRow(5, 3, 3, 50, "D", 2023) }
    /\ Len(req[r].val) = 3
    /\ req[r].val[1].student.id = 1 /\ req[r].val[1].totalScore = 170
    /\ req[r].val[2].student.id = 2 /\ req[r].val[2].totalScore = 100
    /\ req[r].val[3].student.id = 3 /\ req[r].val[3].totalScore = 50

ResultsOfCourse(c, year) == { x \in results : x.courseId = c /\ x.year = year }

\* C18: topCourses(year, limit) counts only the results of that year: an
\* entry's enrollmentCount is the number of its course's results in the year,
\* a course without a result in the year is not returned, the entries are in
\* non-increasing order of enrollmentCount, there are at most limit of them,
\* and no course left out has a greater count than one returned.
C18_TopCourses ==
  [][\A r \in Slots :
       Resumes(r, "topCourses", "details") =>
         LET top == req'[r].val
             year == req[r].input.year
             having == { x.courseId : x \in { y \in results : y.year = year } }
             named == { top[n].course.id : n \in DOMAIN top }
         IN /\ req'[r].pc = "done"
            /\ Len(top) = Min(AskedLimit(req[r].input), Cardinality(having))
            /\ \A n \in DOMAIN top :
                 /\ top[n].course \in courses
                 /\ top[n].course.id \in having
                 /\ top[n].year = year
                 /\ top[n].enrollmentCount
                      = Cardinality(ResultsOfCourse(top[n].course.id, year))
                 /\ top[n].enrollmentCount > 0
            /\ \A m, n \in DOMAIN top :
                 /\ m < n => top[m].enrollmentCount >= top[n].enrollmentCount
                 /\ m # n => top[m].course.id # top[n].course.id
            /\ \A c \in having \ named, n \in DOMAIN top :
                 Cardinality(ResultsOfCourse(c, year)) <= top[n].enrollmentCount]_vars

\* With two results each for C1 and C2 and one for C3 in 2024 and another for
\* C3 in 2023, topCourses(2024, 2) answered C2 then C1, each with count 2.
C18_Witness ==
  \E r \in Slots :
    /\ req[r].op = "topCourses" /\ req[r].pc = "done"
    /\ results = ResultPool
    /\ Len(req[r].val) = 2
    /\ req[r].val[1].year = 2024
    /\ req[r].val[1].course.id = 2 /\ req[r].val[1].enrollmentCount = 2
    /\ req[r].val[2].course.id = 1 /\ req[r].val[2].enrollmentCount = 2

\* The ids of the institutes a resultsPerInstitute response has rollups for.
RolledUp(val) == { x.institute.id : x \in val }

\* The first k institutes in ascending order of name.
FirstByName(k) ==
  { i.id : i \in { j \in institutes :
                     Cardinality({ h \in institutes :
                                     Collate(h.name) < Collate(j.name) }) < k } }

C20_RollupContents ==
  \A r \in Slots :
    (req[r].op = "resultsPerInstitute" /\ req[r].pc = "done") =>
      \A x \in req[r].val :
        LET enrolled == { s \in students : s.instituteId = x.institute.id }
            theirs == { y \in results : y.studentId \in { s.id : s \in enrolled } }
        IN /\ \E i \in institutes :
                x.institute = [id |-> i.id, name |-> i.name, location |-> i.location]
           /\ { y.id : y \in x.results } = { y.id : y \in theirs }
           /\ Cardinality(x.results) = Cardinality(theirs)
           /\ \A y \in x.results :
                \E z \in theirs, s \in enrolled :
                  /\ z.id = y.id /\ s.id = z.studentId
                  /\ y.score = z.score /\ y.grade = z.grade /\ y.year = z.year
                  /\ y.course = findByPk(courses, z.courseId)
                  /\ y.student = [id |-> s.id, name |-> s.name, email |-> s.email,
                                  institute |-> x.institute]
           /\ x.totalStudents = Cardinality(enrolled)
           /\ x.averageScore[2] > 0
           /\ IF theirs = {}
              THEN x.averageScore[1] = 0
              ELSE x.averageScore[1] * Cardinality(theirs)
                     = ScoreTotal(theirs) * x.averageScore[2]

\* An institute with two students and three results (90, 80, 100) was rolled
\* up, and so was one without students.
C20_Witness ==
  \E r \in Slots :
    /\ req[r].op = "resultsPerInstitute" /\ req[r].pc = "done"
    /\ \E x \in req[r].val :
         /\ x.totalStudents = 2 /\ Cardinality(x.results) = 3
         /\ x.averageScore = Ratio(270, 3)
    /\ \E x \in req[r].val :
         /\ x.totalStudents = 0 /\ x.results = {} /\ x.averageScore = Ratio(0, 1)

\* ------------------------------------------------------------------ C21
\* The table each find-by-id query, update and delete reads.
LookupOps ==
  { "institute", "student", "course", "result",
    "updateInstitute", "updateStudent", "updateCourse", "updateResult",
    "deleteInstitute", "deleteStudent", "deleteCourse", "deleteResult" }

TableOf(op) ==
  CASE op \in { "institute", "updateInstitute", "deleteInstitute" } -> institutes
    [] op \in { "student", "updateStudent", "deleteStudent" } -> students
    [] op \in { "course", "updateCourse", "deleteCourse" } -> courses
    [] op \in { "result", "updateResult", "deleteResult" } -> results

\* Slot r takes the request op(id) of the principal ctx, with some input.
Lookup(r, ctx, op, id) ==
  CASE op = "institute" -> institute(r, ctx, id)
    [] op = "student" -> student(r, ctx, id)
    [] op = "course" -> course(r, ctx, id)
    [] op = "result" -> result(r, ctx, id)
    [] op = "updateInstitute" ->
         \E input \in CrudInstituteInputs : updateInstitute(r, ctx, id, input)
    [] op = "updateStudent" ->
         \E input \in CrudStudentInputs : updateStudent(r, ctx, id, input)
    [] op = "updateCourse" ->
         \E input \in UpdateCourseInputs : updateCourse(r, ctx, id, input)
    [] op = "updateResult" ->
         \E input \in CrudResultInputs : updateResult(r, ctx, id, input)
    [] op = "deleteInstitute" -> deleteInstitute(r, ctx, id)
    [] op = "deleteStudent" -> deleteStudent(r, ctx, id)
    [] op = "deleteCourse" -> deleteCourse(r, ctx, id)
    [] op = "deleteResult" -> deleteResult(r, ctx, id)

UpdateOps == { "updateInstitute", "updateStudent", "updateCourse", "updateResult" }

\* The five tables without the one op writes.
OtherTables(op) ==
  <<IF op = "updateInstitute" THEN {} ELSE institutes,
    IF op = "updateStudent" THEN {} ELSE students,
    IF op = "updateCourse" THEN {} ELSE courses,
    IF op = "updateResult" THEN {} ELSE results,
    users>>

InDomain(f, v) ==
  CASE f = "score" -> v >= 0 /\ v <= 100
    [] f = "grade" ->
         v \in {"A+", "A", "A-", "B+", "B", "B-", "C+", "C", "C-", "D+", "D", "F"}
    [] f = "year" -> v >= 2000 /\ v <= 2100
    [] OTHER -> TRUE

\* The step ends slot r's handler with an error and writes nothing.
Refused(r) == req'[r].pc = "failed" /\ UNCHANGED store

\* C23: every stored result has a score in 0..100, one of the twelve letter
\* grades and a year in 2000..2100; the insert of createResult and the update of
\* updateResult with a supplied value outside these domains fail and write
\* nothing.
C23_ResultDomains ==
  /\ [](\A x \in results : \A f \in {"score", "grade", "year"} : InDomain(f, x[f]))
  /\ [][\A r \in Slots :
          /\ Resumes(r, "createResult", "create")
               /\ (\E f \in DOMAIN req[r].input : ~InDomain(f, req[r].input[f]))
               => Refused(r)
          /\ Resumes(r, "updateResult", "update")
               /\ (\E f \in DOMAIN req[r].input : ~InDomain(f, req[r].input[f]))
               => Refused(r)]_vars

\* An updateResult has been refused by the validators, the results it was aimed
\* at still being the valid ones stored before.
C23_Witness ==
  \E r \in Slots :
    /\ FailedWith(r, "updateResult", "SequelizeValidationError")
    /\ results # {}

\* ------------------------------------------------------------------ C24
\* C24: in every reachable state each user is referenced by at most one
\* student, whatever signUp and createStudent calls have run.
C24_OneStudentPerUser ==
  \A u \in users : Cardinality({ s \in students : s.userId = u.id }) <= 1

\* createStudent has returned and two students name the same user.
C24_Witness ==
  \E r \in Slots :
    /\ req[r].op = "createStudent" /\ req[r].pc = "done"
    /\ \E s, t \in students : s.id # t.id /\ s.userId = t.userId

\* ------------------------------------------------------------------ C25
ListOps == { "institutes", "students", "courses", "results" }

ListedTable(op) ==
  CASE op = "institutes" -> institutes
    [] op = "students" -> students
    [] op = "courses" -> courses
    [] op = "results" -> results

\* Slot r holds the page a list query returned.
Page(r, op) == req[r].op = op /\ req[r].pc = "done"

\* The sequence holds every row of the table, each exactly once.
EachOnce(items, table) ==
  /\ Len(items) = Cardinality(table)
  /\ { items[k] : k \in 1..Len(items) } = table

\* C25: on a store nothing modifies, the pages a list query returns for the
\* offsets 0, L, ... with one limit L and no filter, up to the page whose hasMore
\* is false, hold every row of the table exactly once, and totalCount on every
\* page is the number of rows (a walk of one page, and one of two pages).
C25_PagesCoverOnce ==
  \A op \in ListOps : \A p, q \in Slots :
    /\ Page(p, op) => req[p].val.totalCount = Cardinality(ListedTable(op))
    /\ Page(p, op) /\ req[p].val.offset = 0 /\ ~req[p].val.hasMore
         => EachOnce(req[p].val.items, ListedTable(op))
    /\ ( /\ Page(p, op) /\ req[p].val.offset = 0 /\ req[p].val.hasMore
         /\ Page(q, op) /\ req[q].val.limit = req[p].val.limit
         /\ req[q].val.offset = req[p].val.limit /\ ~req[q].val.hasMore )
         => EachOnce(req[p].val.items \o req[q].val.items, ListedTable(op))

\* The two pages of a walk through two institutes of one name, limit 1, hold
\* the same institute.
C25_Witness ==
  \E p, q \in Slots :
    /\ Page(p, "institutes") /\ req[p].val.offset = 0 /\ req[p].val.limit = 1
    /\ Page(q, "institutes") /\ req[q].val.offset = 1 /\ req[q].val.limit = 1
    /\ req[p].val.items = req[q].val.items
    /\ Len(req[p].val.items) = 1

\* ------------------------------------------------------------------ C26
\* C26: every entry topCourses returns carries a course and every entry
\* topStudents returns carries a student, never an absent one, whatever deletes
\* run between the grouping query and the lookups by id.
C26_DetailsPresent ==
  \A r \in Slots :
    /\ req[r].op = "topCourses" /\ req[r].pc = "done"
         => \A n \in DOMAIN req[r].val : req[r].val[n].course # NoRow
    /\ req[r].op = "topStudents" /\ req[r].pc = "done"
         => \A n \in DOMAIN req[r].val : req[r].val[n].student # NoRow

\* topCourses has returned an entry without its course, a deleteCourse having
\* finished in the other slot.
C26_Witness ==
  \E r, q \in Slots :
    /\ req[r].op = "topCourses" /\ req[r].pc = "done"
    /\ \E n \in DOMAIN req[r].val : req[r].val[n].course = NoRow
    /\ req[q].op = "deleteCourse" /\ req[q].pc = "done"

\* ------------------------------------------------------------------ C27
\* The requests that carry a principal: operation, id and input or arguments.
RoleCall(op, ids, inputs) == [op : {op}, id : ids, input : inputs]

RoleCalls ==
  RoleCall("createInstitute", {0}, CreateInstituteInputs)
  \cup RoleCall("updateInstitute", 1..cap.institutes, UpdateInstituteInputs)
  \cup RoleCall("deleteInstitute", 1..cap.institutes, {NoRow})
  \cup RoleCall("createStudent", {0}, CreateStudentInputs)
  \cup RoleCall("updateStudent", 1..cap.students, UpdateStudentInputs)
  \cup RoleCall("deleteStudent", 1..cap.students, {NoRow})
  \cup RoleCall("createCourse", {0}, CreateCourseInputs(Codes))
  \cup RoleCall("updateCourse", 1..cap.courses, UpdateCourseInputs)
  \cup RoleCall("deleteCourse", 1..cap.courses, {NoRow})
  \cup RoleCall("createResult", {0}, CreateResultInputs)
  \cup RoleCall("updateResult", 1..cap.results, UpdateResultInputs)
  \cup RoleCall("deleteResult", 1..cap.results, {NoRow})
  \cup RoleCall("me", {0}, {NoRow})
  \cup RoleCall("institute", 1..cap.institutes, {NoRow})
  \cup RoleCall("student", 1..cap.students, {NoRow})
  \cup RoleCall("course", 1..cap.courses, {NoRow})
  \cup RoleCall("result", 1..cap.results, {NoRow})
  \cup RoleCall("students", {0}, ListArgs)
  \cup RoleCall("courses", {0}, ListArgs)
  \cup RoleCall("results", {0}, ListArgs)
  \cup RoleCall("allData", {0}, {NoRow})
  \cup RoleCall("resultsPerInstitute", {0}, RollupArgs)
  \cup RoleCall("topCourses", {0}, TopCoursesArgs)
  \cup RoleCall("topStudents", {0}, TopStudentsArgs)

\* Slot r takes the request c of the principal ctx.
Request(r, ctx, c) ==
  CASE c.op = "createInstitute" -> createInstitute(r, ctx, c.input)
    [] c.op = "updateInstitute" -> updateInstitute(r, ctx, c.id, c.input)
    [] c.op = "deleteInstitute" -> deleteInstitute(r, ctx, c.id)
    [] c.op = "createStudent" -> createStudent(r, ctx, c.input)
    [] c.op = "updateStudent" -> updateStudent(r, ctx, c.id, c.input)
    [] c.op = "deleteStudent" -> deleteStudent(r, ctx, c.id)
    [] c.op = "createCourse" -> createCourse(r, ctx, c.input)
    [] c.op = "updateCourse" -> updateCourse(r, ctx, c.id, c.input)
    [] c.op = "deleteCourse" -> deleteCourse(r, ctx, c.id)
    [] c.op = "createResult" -> createResult(r, ctx, c.input)
    [] c.op = "updateResult" -> updateResult(r, ctx, c.id, c.input)
    [] c.op = "deleteResult" -> deleteResult(r, ctx, c.id)
    [] c.op = "me" -> me(r, ctx)
    [] c.op = "institute" -> institute(r, ctx, c.id)
    [] c.op = "student" -> student(r, ctx, c.id)
    [] c.op = "course" -> course(r, ctx, c.id)
    [] c.op = "result" -> result(r, ctx, c.id)
    [] c.op = "students" -> studentsQuery(r, ctx, c.input)
    [] c.op = "courses" -> coursesQuery(r, ctx, c.input)
    [] c.op = "results" -> resultsQuery(r, ctx, c.input)
    [] c.op = "allData" -> allData(r, ctx)
    [] c.op = "resultsPerInstitute" -> resultsPerInstitute(r, ctx, c.input)
    [] c.op = "topCourses" -> topCourses(r, ctx, c.input)
    [] c.op = "topStudents" -> topStudents(r, ctx, c.input)

\* C27: a request of a principal with the role student and the same request of
\* that principal with the role admin have, from the same store, the same
\* possible responses and resulting stores, for every query and mutation that
\* takes a principal; no response carries the code FORBIDDEN.
C27_RoleIndependent ==
  /\ [](\A r \in Slots : req[r].err.code # "FORBIDDEN")
  /\ [][\A r \in Slots : \A c \in { d \in RoleCalls : Begins(r, d.op) } :
          \A ctx \in Principals :
            Request(r, ctx, c) <=> Request(r, AsAdmin(ctx), c)]_vars

\* A delete of an institute, a step either role takes, has gone through.
C27_Witness ==
  \E r \in Slots :
    /\ req[r].op = "deleteInstitute" /\ req[r].pc = "done"
    /\ institutes = {}

\* ------------------------------------------------------------------ C28
\* The user a signUp in slot r has created.
Created(r) == req[r].op = "signUp" /\ req[r].pc \in {"createStudent", "done"}

CreatedUser(r) == IF req[r].pc = "done" THEN req[r].val.user ELSE req[r].snap

\* C28: no two users have the same email; a signUp that reaches its insert
\* when a user with its email exists, having passed the existing-user check
\* before that user was inserted, fails and writes nothing, so of two signUp
\* requests for one email at most one creates a user and a student.
C28_UniqueEmail ==
  /\ [](\A u, v \in users : u.email = v.email => u = v)
  /\ [](\A r, q \in Slots :
          r # q /\ Created(r) /\ Created(q)
            => CreatedUser(r).email # CreatedUser(q).email)
  /\ [][\A r \in Slots :
          Resumes(r, "signUp", "createUser")
            /\ (\E u \in users : u.email = req[r].input.email)
            => Refused(r)]_vars

\* A signUp was refused by the unique index: it had passed the existing-user
\* check, and the other signUp for the email inserted first.
C28_Witness ==
  \E r \in Slots :
    /\ FailedWith(r, "signUp", "SequelizeUniqueConstraintError")
    /\ Cardinality(users) = 1
    /\ Cardinality(students) <= 1

\* ------------------------------------------------------------------ C29
\* signIn(email, password) against the users of the state.
SignIn(email, password) == signInOutcome([email |-> email, password |-> password])

\* C29: once signUp has created the user of its email and password, signIn
\* with that email and password returns that user's id, email and the role
\* student, and signIn with that email and any other password fails with
\* UNAUTHENTICATED; no step removes or changes a user, so this stays true, and
\* signIn writes nothing.
C29_SignInAfterSignUp ==
  [][/\ \A r \in Slots :
          Resumes(r, "signUp", "createUser") /\ users' # users =>
            \E input \in { req[r].input }, id \in { req'[r].snap.id } :
              \A password \in SignInPasswords :
                IF password = input.password
                THEN /\ SignIn(input.email, password)'.err = NoErr
                     /\ SignIn(input.email, password)'.val.user.id = id
                     /\ SignIn(input.email, password)'.val.user.email = input.email
                     /\ SignIn(input.email, password)'.val.user.role = "student"
                ELSE SignIn(input.email, password)'.err.code = "UNAUTHENTICATED"
     /\ users \subseteq users'
     /\ \A r \in Slots :
          Begins(r, "signIn") =>
            /\ UNCHANGED store
            /\ req'[r].err = signInOutcome(req'[r].input).err
            /\ req'[r].val = signInOutcome(req'[r].input).val]_vars

\* signIn has succeeded with a password other than the one the user signed up
\* with: the two agree on their first 72 bytes.
C29_Witness ==
  \E r \in Slots :
    /\ req[r].op = "signIn" /\ req[r].pc = "done"
    /\ req[r].input.password = "72-bytes-and-y"

\* ------------------------------------------------------------------ C30
\* The total of the phase whose workers are running.
PhaseTotal(entityType) ==
  CASE entityType = "institutes" -> instituteCount
    [] entityType = "courses" -> courseCount
    [] entityType = "results" -> resultCount

\* seedData has reached the phase: its workers exist, or its loop is running
\* or has run.
Reached(phase) ==
  CASE phase = "users" -> seedMain.pc = "users" \/ users # {}
    [] phase = "students" -> seedMain.pc = "students" \/ students # {}
    [] phase = "courses" -> seedPool.pc \in {"courses", "results"} \/ courses # {}
    [] phase = "results" -> seedPool.pc = "results" \/ results # {}

\* Every worker and batch of the phase has completed: all its rows are stored.
Completed(phase) ==
  CASE phase = "institutes" -> Cardinality(institutes) = instituteCount
    [] phase = "users" -> Cardinality(users) = userCount
    [] phase = "students" -> Cardinality(students) = studentCount
    [] phase = "courses" -> Cardinality(courses) = courseCount

\* The counts of the workers, added up.
RECURSIVE TotalCount(_)
TotalCount(workers) ==
  IF workers = <<>> THEN 0 ELSE Head(workers).count + TotalCount(Tail(workers))

\* C30: the seeder reaches the phases users, students, courses and results in
\* this order, each only when every worker and batch of the phases before it has
\* completed; so every student it inserts names an institute and a user that
\* exist and every result names a student and a course that exist; and the
\* counts of the workers of a parallel phase add up to the phase's total.
C30_SeederPhases ==
  /\ Reached("users") => Completed("institutes")
  /\ Reached("students") => Completed("institutes") /\ Completed("users")
  /\ Reached("courses") => Completed("students")
  /\ Reached("results") => Completed("students") /\ Completed("courses")
  /\ \A s \in students : Exists(institutes, s.instituteId) /\ Exists(users, s.userId)
  /\ \A x \in results : Exists(students, x.studentId) /\ Exists(courses, x.courseId)
  /\ seedPool.op = "seedWorker" =>
       TotalCount(seedPool.input) = PhaseTotal(seedPool.pc)

\* The seeder has finished on two cores: its two result workers had unequal
\* counts, and every result is stored.
C30_Witness ==
  /\ seedMain.op = "seedData" /\ seedMain.pc = "done"
  /\ Len(seedPool.input) = 2
  /\ seedPool.input[1].count # seedPool.input[2].count
  /\ Cardinality(results) = resultCount

====
